---------------------------- MODULE Spec2Model ----------------------------
(***************************************************************************)
(* Model of the OCR job orchestrator of cloud_vision_api_ocr: the          *)
(* 'start-ocr' IPC handler (main process), VisionService.pollOperation,    *)
(* the functions of ParserService and splitSpreadPdf.                      *)
(*                                                                         *)
(* Specifications:                                                         *)
(*   Spec         one invocation of the 'start-ocr' handler (batch, sync)  *)
(*   SpecPoll     one call of VisionService.pollOperation                  *)
(*   SpecPollFair the same call, its steps taken whenever they can be      *)
(*   SpecParse    one call of ParserService.parseVisionOutput              *)
(*   SpecSort     one call of ParserService.sortJsonFilesByPageRange       *)
(*   SpecMarkdown one call of ParserService.convertToMarkdown              *)
(*   SpecMedian   one call of ParserService.calculateMedian                *)
(*   SpecRuby     one call of ParserService.extractTextWithOptions with    *)
(*                ruby removal on                                          *)
(*   SpecBreaks   one call of it under each setting of the options, on     *)
(*                symbols with detected breaks                             *)
(*   SpecSplit    one call of splitSpreadPdf                               *)
(*   SpecExtract  one call of ParserService.extractText                    *)
(*   SpecOverlap  two overlapping invocations of the handler on the shared *)
(*                storage and OCR clients                                  *)
(*   SpecPaths    two batch runs and the object and directory names they   *)
(*                choose                                                   *)
(*   SpecRenderer the renderer hook and the notifications of one job       *)
(***************************************************************************)
EXTENDS Integers, Sequences, FiniteSets, TLC

VARIABLES
    pc,             \* position of the handler / of the function under check
    filePath,       \* the source file: [ext |-> extension as written]
    job,            \* what the caller asks for with the job (see Jobs)
    keyfile,        \* config.gcpKeyfilePath is a non-empty string
    pollingIntervalMs, \* config.pollingIntervalMs
    mainWindow,     \* the BrowserWindow exists (mainWindow !== null)
    events,         \* notifications sent to the renderer, in order
    calls,          \* steps performed by the run, in order: [op, ok]
    gcsInit,        \* GCSService.initialized
    visionInit,     \* VisionService.initialized
    tempDir,        \* runBatchOCRProcess: tempDir !== null
    dirExists,      \* the temporary directory exists on disk
    rmFailed,       \* fs.rm of the temporary directory threw
    err,            \* the error a failed run carries ("none" when none)
    result,         \* what the handler returned: "none", "success", "failure"
    jsonFiles,      \* the .json object names of the output listing
    localJsonFiles, \* local paths downloaded so far
    disk,           \* content of each local file: path -> content
    sortedFiles,    \* result of sortJsonFilesByPageRange
    responses,      \* result of parseVisionOutput: [ok, err, value]
    pages,          \* result of extractText: the page texts, in order
    outputPath,     \* name of the Markdown file handed to saveMarkdown
    arg,            \* argument of the function under check
    ret,            \* what the function under check returned
    pageCount,      \* page count of the completion event
    pollState,      \* pollOperation: "idle","loop","query","sleep","returned","failed"
    pollTimeout,    \* pollOperation: timeoutMs
    pollInterval,   \* pollOperation: intervalMs
    now,            \* Date.now()
    pollStart,      \* pollOperation: startTime
    pollCount,      \* pollOperation: pollCount
    pollElapsed,    \* pollOperation: elapsed of the current iteration
    pollErr,        \* error code pollOperation threw ("none" when none)
    iterElapsed,    \* history: elapsed computed at the start of each iteration
    statuses,       \* history: status returned by each status query
    progressCalls,  \* history: elapsed passed to each onProgress call
    sleeps,         \* history: the interval each sleep was called with
    services,       \* the module-level gcsService and visionService (see NoServices)
    runs,           \* invocations of the handler that overlap: run -> its locals
    bucket,         \* the objects of the bucket: [path, name, owner]
    tmpdirs,        \* the directories under os.tmpdir(): name -> files in it
    renderer,       \* useOCRProcess: [status, error]
    ipc             \* messages from the main process the renderer has not handled

vars == <<pc, filePath, job, keyfile, pollingIntervalMs, mainWindow, events, calls,
          gcsInit, visionInit, tempDir, dirExists, rmFailed, err, result,
          jsonFiles, localJsonFiles, disk, sortedFiles, responses, pages,
          outputPath, arg, ret, pageCount,
          pollState, pollTimeout, pollInterval, now, pollStart, pollCount,
          pollElapsed, pollErr, iterElapsed, statuses, progressCalls, sleeps,
          services, runs, bucket, tmpdirs, renderer, ipc>>

extVars  == <<services, runs, bucket, tmpdirs, renderer, ipc>>
handlerVars == <<filePath, job, keyfile, pollingIntervalMs, mainWindow, events, calls,
                 gcsInit, tempDir, dirExists, rmFailed, err, result,
                 jsonFiles, pageCount>>
runVars  == <<extVars, handlerVars>>
fnVars   == <<arg, ret>>
dataVars == <<localJsonFiles, disk, sortedFiles, responses, pages, outputPath, fnVars>>
pollVars == <<pollState, pollTimeout, pollInterval, now, pollStart, pollCount,
              pollElapsed, pollErr, iterElapsed, statuses, progressCalls, sleeps>>

---------------------------------------------------------------------------
(* Bounds of the model *)

\* longest list of result files handed to a direct sort or parse call
MaxFiles == 3
\* longest listing of the output prefix in a run
MaxListing == 2
\* status queries after which the remote operation no longer answers
\* "not done, no error"
MaxPolls == 3
\* largest timeoutMs drawn for a direct pollOperation call
MaxTimeout == 2
\* largest intervalMs drawn for a direct pollOperation call
MaxInterval == 2

---------------------------------------------------------------------------
(* Error codes: shared/types.ts ErrorCode *)

GCP_AUTH_FAILED    == "E002"
FILE_NOT_FOUND     == "E001"
BUCKET_NOT_FOUND   == "E101"
UPLOAD_FAILED      == "E102"
DOWNLOAD_FAILED    == "E103"
LIST_FILES_FAILED  == "E104"
API_REQUEST_FAILED == "E201"
OPERATION_TIMEOUT  == "E202"
INVALID_RESPONSE   == "E203"
JSON_PARSE_FAILED  == "E301"
TEXT_EXTRACTION_FAILED == "E302"
FILE_WRITE_FAILED  == "E303"
\* an error that is not an AppError (a raw fs error)
UNTYPED            == "untyped"

---------------------------------------------------------------------------
(* File names.  A path is a sequence of tokens: the literal pieces the    *)
(* regular expression /output-(\d+)-to-\d+\.json/ looks for, decimal       *)
(* digits, and "x" for any other text.                                     *)

Digits == {"0", "1", "2"}

DigitVal(d) == CASE d = "0" -> 0 [] d = "1" -> 1 [] d = "2" -> 2

\* the index after the run of digits that starts at index i (i itself when
\* p[i] is no digit): the greedy \d+
RECURSIVE DigitRunEnd(_, _)
DigitRunEnd(p, i) ==
    IF i <= Len(p) /\ p[i] \in Digits THEN DigitRunEnd(p, i + 1) ELSE i

\* parseInt(s, 10) of a string of decimal digits
RECURSIVE ParseInt(_)
ParseInt(ds) ==
    IF Len(ds) = 0 THEN 0
    ELSE 10 * ParseInt(SubSeq(ds, 1, Len(ds) - 1)) + DigitVal(ds[Len(ds)])

\* the regular expression matches at index i
MatchAt(p, i) ==
    LET e1 == DigitRunEnd(p, i + 1)
        e2 == DigitRunEnd(p, e1 + 1)
    IN  /\ i <= Len(p) /\ p[i] = "output-"
        /\ e1 > i + 1
        /\ e1 <= Len(p) /\ p[e1] = "-to-"
        /\ e2 > e1 + 1
        /\ e2 <= Len(p) /\ p[e2] = ".json"

\* path.match(...): the leftmost match, 0 when there is none
FirstMatch(p) ==
    IF \E i \in 1..Len(p) : MatchAt(p, i)
    THEN CHOOSE i \in 1..Len(p) :
            MatchAt(p, i) /\ \A j \in 1..(i - 1) : ~MatchAt(p, j)
    ELSE 0

\* match ? parseInt(match[1], 10) : 0
StartPage(p) ==
    LET i == FirstMatch(p)
    IN  IF i = 0 THEN 0
        ELSE ParseInt(SubSeq(p, i + 1, DigitRunEnd(p, i + 1) - 1))

\* InsertByStartPage with the comparator (a, b) => b.startPage - a.startPage
RECURSIVE InsertByStartPageDesc(_, _)
InsertByStartPageDesc(s, x) ==
    IF Len(s) = 0 THEN <<x>>
    ELSE IF x.startPage - s[Len(s)].startPage > 0
         THEN Append(InsertByStartPageDesc(SubSeq(s, 1, Len(s) - 1), x), s[Len(s)])
         ELSE Append(s, x)

\* Array.prototype.sort with (a, b) => a.startPage - b.startPage: a stable
\* sort; insertion of x after every element that does not compare greater
RECURSIVE InsertByStartPage(_, _)
InsertByStartPage(s, x) ==
    IF Len(s) = 0 THEN <<x>>
    ELSE IF s[Len(s)].startPage - x.startPage > 0
         THEN Append(InsertByStartPage(SubSeq(s, 1, Len(s) - 1), x), s[Len(s)])
         ELSE Append(s, x)

RECURSIVE SortByStartPage(_)
SortByStartPage(s) ==
    IF Len(s) = 0 THEN <<>>
    ELSE InsertByStartPage(SortByStartPage(SubSeq(s, 1, Len(s) - 1)), s[Len(s)])

\* the paths as they came, not sorted
sortJsonFilesNotSorted(filePaths) == filePaths

sortJsonFilesByPageRange(filePaths) ==
    LET filesWithPageNumber ==
            [i \in 1..Len(filePaths) |->
                [path |-> filePaths[i], startPage |-> StartPage(filePaths[i])]]
        sorted == SortByStartPage(filesWithPageNumber)
    IN  [i \in 1..Len(sorted) |-> sorted[i].path]

---------------------------------------------------------------------------
(* File contents, as far as parseVisionOutput looks at them.              *)
(*   readable   fs.readFile succeeds                                       *)
(*   json       what JSON.parse makes of the text: "invalid" (it throws),  *)
(*              "null", "scalar" (a number, string, boolean or array) or   *)
(*              "object"                                                   *)
(*   responses  the value of the field 'responses' of an object: "absent", *)
(*              "falsy" (null, 0, ""), "other" (a truthy value that is no  *)
(*              array), "array"                                            *)
(*   n          the number of elements of the array                        *)

\* most elements of a 'responses' array drawn for a file
MaxResponses == 2

Contents ==
    {[readable |-> FALSE, json |-> "object", responses |-> "array", n |-> 1]}
    \cup {[readable |-> TRUE, json |-> j, responses |-> "absent", n |-> 0] :
                j \in {"invalid", "null", "scalar"}}
    \cup {[readable |-> TRUE, json |-> "object", responses |-> r, n |-> 0] :
                r \in {"absent", "falsy", "other"}}
    \cup {[readable |-> TRUE, json |-> "object", responses |-> "array", n |-> k] :
                k \in 0..MaxResponses}

\* the file can be read, is valid JSON and carries an array 'responses'
Usable(c) ==
    c.readable /\ c.json # "invalid" /\ c.json = "object" /\ c.responses = "array"

\* parsed.responses: a property read of null throws a TypeError, a property
\* read of a scalar gives undefined
ResponsesField(c) ==
    IF c.json = "null" THEN "throws"
    ELSE IF c.json = "object" THEN c.responses
    ELSE "absent"

\* parseFile without the Array.isArray test
parseFileNoArrayTest(c) ==
    IF ~c.readable THEN "caught"
    ELSE IF c.json = "invalid" THEN "caught"
    ELSE IF ResponsesField(c) = "throws" THEN "caught"
    ELSE IF ResponsesField(c) \in {"absent", "falsy"}
         THEN "skip"
         ELSE "push"

\* the body of the for loop for one file: "push", "skip" (continue) or
\* "caught" (the inner catch)
parseFile(c) ==
    IF ~c.readable THEN "caught"
    ELSE IF c.json = "invalid" THEN "caught"
    ELSE IF ResponsesField(c) = "throws" THEN "caught"
    ELSE IF ResponsesField(c) \in {"absent", "falsy"} \/ ResponsesField(c) # "array"
         THEN "skip"
         ELSE "push"

\* the for loop over jsonFiles: the responses pushed, in order
RECURSIVE parseLoop(_, _)
parseLoop(files, d) ==
    IF Len(files) = 0 THEN <<>>
    ELSE LET before == parseLoop(SubSeq(files, 1, Len(files) - 1), d)
             c      == d[files[Len(files)]]
         IN  IF parseFile(c) = "push" THEN Append(before, c) ELSE before

parseVisionOutput(files, d) ==
    LET rs == parseLoop(files, d)
    IN  IF Len(rs) = 0
        THEN [ok |-> FALSE, err |-> JSON_PARSE_FAILED, value |-> <<>>]
        ELSE [ok |-> TRUE, err |-> "none", value |-> rs]

NoResponses == [ok |-> FALSE, err |-> "none", value |-> <<>>]

---------------------------------------------------------------------------
(* Elements of 'responses'.  A usable file carries, besides the number n  *)
(* of elements of 'responses', the elements themselves (items); an        *)
(* element is                                                              *)
(*   "null"  null: reading item.fullTextAnnotation throws a TypeError      *)
(*   "none"  an element without fullTextAnnotation                         *)
(*   "text"  an element with fullTextAnnotation; text is its 'text' field, *)
(*           hasPages tells whether it has a 'pages' field, pages is that  *)
(*           field                                                         *)
(* A text is a sequence of characters; <<>> is the empty string.           *)

NullItem     == [kind |-> "null", text |-> <<>>, hasPages |-> FALSE, pages |-> <<>>]
NoAnnotation == [kind |-> "none", text |-> <<>>, hasPages |-> FALSE, pages |-> <<>>]
TextItem(t)  == [kind |-> "text", text |-> t, hasPages |-> FALSE, pages |-> <<>>]
DetailItem(t, ps) == [kind |-> "text", text |-> t, hasPages |-> TRUE, pages |-> ps]

\* a usable file with these elements of 'responses'
FileOf(items) ==
    [readable |-> TRUE, json |-> "object", responses |-> "array",
     n |-> Len(items), items |-> items]

\* a file JSON.parse rejects
InvalidFile ==
    [readable |-> TRUE, json |-> "invalid", responses |-> "absent",
     n |-> 0, items |-> <<>>]

---------------------------------------------------------------------------
(* Values of the variables a specification does not use *)

\* the timeout runBatchOCRProcess passes: 60 * 60 * 1000
RunTimeoutMs == 3600000

\* a job that asks for nothing: the overall timeout of an hour, ruby
\* removal, line-break normalizing and spread splitting off
DefaultJob ==
    [timeoutMs |-> RunTimeoutMs, removeRuby |-> FALSE,
     normalizeLineBreaks |-> FALSE, splitSpread |-> FALSE]

\* the services before any initialize: no handle, not initialized;
\* lastInit is history: how the last initialize that ended has ended
NoServices ==
    [gcs    |-> [handle |-> "null", initialized |-> FALSE, lastInit |-> "none"],
     vision |-> [handle |-> "null", initialized |-> FALSE, lastInit |-> "none"]]

\* useState: status 'idle', error null
IdleHook == [status |-> "idle", error |-> "null"]

IdleExt ==
    /\ services = NoServices
    /\ runs = <<>>
    /\ bucket = {}
    /\ tmpdirs = <<>>
    /\ renderer = IdleHook
    /\ ipc = <<>>

IdleHandler ==
    /\ filePath = [ext |-> "pdf"]
    /\ job = DefaultJob
    /\ keyfile = TRUE
    /\ pollingIntervalMs = 1
    /\ mainWindow = TRUE
    /\ events = <<>>
    /\ calls = <<>>
    /\ gcsInit = FALSE
    /\ tempDir = FALSE
    /\ dirExists = FALSE
    /\ rmFailed = FALSE
    /\ err = "none"
    /\ result = "none"
    /\ jsonFiles = <<>>
    /\ pageCount = 0

IdleRun == IdleExt /\ IdleHandler

IdleFn ==
    /\ arg = <<>>
    /\ ret = <<>>

IdleFiles ==
    /\ localJsonFiles = <<>>
    /\ disk = <<>>
    /\ sortedFiles = <<>>
    /\ responses = NoResponses
    /\ pages = <<>>
    /\ outputPath = <<>>

IdleData == IdleFiles /\ IdleFn

IdlePoll ==
    /\ pollState = "idle"
    /\ pollTimeout = 0
    /\ pollInterval = 1
    /\ now = 0
    /\ pollStart = 0
    /\ pollCount = 0
    /\ pollElapsed = 0
    /\ pollErr = "none"
    /\ iterElapsed = <<>>
    /\ statuses = <<>>
    /\ progressCalls = <<>>
    /\ sleeps = <<>>

\* all sequences over S of length at most n
SeqUpTo(S, n) == UNION {[1..k -> S] : k \in 0..n}

---------------------------------------------------------------------------
(* SpecSort: one call of sortJsonFilesByPageRange on a list of paths *)

OutputName(ds) == <<"output-">> \o ds \o <<"-to-", "1", ".json">>

\* start pages as written in a name: with a leading zero, with two digits
StartStrings == {<<"0">>, <<"1">>, <<"2">>, <<"1", "0">>, <<"0", "2">>}

SortPaths ==
    {OutputName(ds) : ds \in StartStrings}
    \cup { <<"x">> \o OutputName(<<"1">>),                 \* in a directory
           OutputName(<<"2">>) \o OutputName(<<"1">>),      \* two matches
           <<"x", "1", "-to-", "1", ".json">>,              \* no "output-"
           <<"output-", "-to-", "1", ".json">>,             \* no start page
           <<"output-", "1", "-to-", ".json">>,             \* no end page
           <<"output-", "2", "-to-", "1">>,                 \* no ".json"
           <<"x">> }

InitSort ==
    /\ pc = "sort"
    /\ visionInit = FALSE
    /\ IdleRun /\ IdlePoll
    /\ localJsonFiles \in SeqUpTo(SortPaths, MaxFiles)
    /\ disk = <<>>
    /\ sortedFiles = <<>>
    /\ responses = NoResponses
    /\ pages = <<>>
    /\ outputPath = <<>>
    /\ IdleFn

SortCall ==
    /\ pc = "sort"
    /\ sortedFiles' = sortJsonFilesByPageRange(localJsonFiles)
    /\ pc' = "sorted"
    /\ UNCHANGED <<runVars, pollVars, visionInit, localJsonFiles, disk, responses,
                   pages, outputPath, fnVars>>

NextSort == SortCall

SpecSort == InitSort /\ [][NextSort]_vars

---------------------------------------------------------------------------
(* SpecParse: one call of parseVisionOutput on a list of files *)

ParsePaths == {OutputName(<<"1">>), OutputName(<<"2">>), <<"x", ".json">>}

InitParse ==
    /\ pc = "parse"
    /\ visionInit = FALSE
    /\ IdleRun /\ IdlePoll
    /\ localJsonFiles = <<>>
    /\ sortedFiles \in SeqUpTo(ParsePaths, MaxFiles)
    /\ disk \in [ParsePaths -> Contents]
    /\ responses = NoResponses
    /\ pages = <<>>
    /\ outputPath = <<>>
    /\ IdleFn

ParseCall ==
    /\ pc = "parse"
    /\ responses' = parseVisionOutput(sortedFiles, disk)
    /\ pc' = "parsed"
    /\ UNCHANGED <<runVars, pollVars, visionInit, localJsonFiles, disk, sortedFiles,
                   pages, outputPath, fnVars>>

NextParse == ParseCall

SpecParse == InitParse /\ [][NextParse]_vars

---------------------------------------------------------------------------
(* ParserService.convertToMarkdown.  A string is a sequence of characters; *)
(* "\n" is the line feed; the fixed pieces the composer writes ("# Page ", *)
(* "---", the placeholder) are one token each.                             *)

\* most page texts handed to a direct convertToMarkdown call
MaxPages == 3

\* characters String.prototype.trim removes
Whitespace == {" ", "\n"}

RECURSIVE TrimStart(_)
TrimStart(t) ==
    IF Len(t) > 0 /\ t[1] \in Whitespace THEN TrimStart(Tail(t)) ELSE t

RECURSIVE TrimEnd(_)
TrimEnd(t) ==
    IF Len(t) > 0 /\ t[Len(t)] \in Whitespace
    THEN TrimEnd(SubSeq(t, 1, Len(t) - 1)) ELSE t

Trim(t) == TrimEnd(TrimStart(t))

\* a number in a template literal: its decimal digits
DecimalDigits == <<"0", "1", "2", "3", "4", "5", "6", "7", "8", "9">>
DigitChar(d) == DecimalDigits[d + 1]
RECURSIVE NumberToString(_)
NumberToString(k) ==
    IF k < 10 THEN <<DigitChar(k)>> ELSE Append(NumberToString(k \div 10), DigitChar(k % 10))

\* '_(このページにはテキストが含まれていません)_'
EmptyPagePlaceholder == <<"_(no text)_">>

\* the lines pushed for page i with a separator after every page
PageLinesSeparatorAlways(ps, i) ==
    LET pageText == Trim(ps[i])
    IN  << <<"# Page ">> \o NumberToString(i), <<>>,
           IF pageText # <<>> THEN pageText ELSE EmptyPagePlaceholder, <<>>,
           <<"---">>, <<>> >>

\* the lines pushed in pass i - 1 of the loop (pageNumber = i)
PageLines(ps, i) ==
    LET pageText == Trim(ps[i])
    IN  << <<"# Page ">> \o NumberToString(i), <<>>,
           IF pageText # <<>> THEN pageText ELSE EmptyPagePlaceholder, <<>> >>
        \o (IF i - 1 < Len(ps) - 1 THEN << <<"---">>, <<>> >> ELSE <<>>)

\* markdownLines after the first i passes
RECURSIVE markdownLines(_, _)
markdownLines(ps, i) ==
    IF i = 0 THEN <<>> ELSE markdownLines(ps, i - 1) \o PageLines(ps, i)

\* Array.prototype.join('\n')
RECURSIVE Join(_)
Join(lines) ==
    IF Len(lines) = 0 THEN <<>>
    ELSE IF Len(lines) = 1 THEN lines[1]
    ELSE Join(SubSeq(lines, 1, Len(lines) - 1)) \o <<"\n">> \o lines[Len(lines)]

convertToMarkdown(ps) == Join(markdownLines(ps, Len(ps)))

(* SpecMarkdown: one call of convertToMarkdown on an array of page texts *)

PageTexts ==
    { <<>>, <<" ">>, <<"A">>, <<" ", "A", "\n">>, <<"A", "\n", "B">>, <<"\n", " ">> }

InitMarkdown ==
    /\ pc = "compose"
    /\ visionInit = FALSE
    /\ IdleRun /\ IdlePoll /\ IdleFiles
    /\ arg \in SeqUpTo(PageTexts, MaxPages)
    /\ ret = <<>>

MarkdownCall ==
    /\ pc = "compose"
    /\ ret' = convertToMarkdown(arg)
    /\ pc' = "composed"
    /\ UNCHANGED <<runVars, pollVars, visionInit, localJsonFiles, disk, sortedFiles,
                   responses, pages, outputPath, arg>>

NextMarkdown == MarkdownCall

SpecMarkdown == InitMarkdown /\ [][NextMarkdown]_vars

---------------------------------------------------------------------------
(* ParserService.calculateMedian.  Lengths are integers in units of half a *)
(* pixel, so that the mean of two pixel values is an integer.              *)

\* most values handed to a direct calculateMedian call
MaxValues == 4

Px(n) == 2 * n

\* insertion of x into the ascending array s, after the elements that do
\* not compare greater: the stable sort with (a, b) => a - b
RECURSIVE InsertNumber(_, _)
InsertNumber(s, x) ==
    IF Len(s) = 0 THEN <<x>>
    ELSE IF s[Len(s)] - x > 0
         THEN Append(InsertNumber(SubSeq(s, 1, Len(s) - 1), x), s[Len(s)])
         ELSE Append(s, x)

RECURSIVE SortNumbers(_)
SortNumbers(s) ==
    IF Len(s) = 0 THEN <<>>
    ELSE InsertNumber(SortNumbers(SubSeq(s, 1, Len(s) - 1)), s[Len(s)])

\* the median read from the array as it is, without sorting a copy
MedianOfUnsorted(values) ==
    LET mid == Len(values) \div 2
    IN  IF Len(values) = 0 THEN [value |-> 0, values |-> values]
        ELSE IF Len(values) % 2 = 0
        THEN [value |-> (values[mid] + values[mid + 1]) \div 2, values |-> values]
        ELSE [value |-> values[mid + 1], values |-> values]

\* value: what is returned; values: the argument array after the call
\* (sorted is a copy; sorted[mid] of the 0-based array is element mid + 1)
calculateMedian(values) ==
    LET sorted == SortNumbers(values)
        mid    == Len(sorted) \div 2
    IN  IF Len(values) = 0 THEN [value |-> 0, values |-> values]
        ELSE IF Len(sorted) % 2 = 0
        THEN [value |-> (sorted[mid] + sorted[mid + 1]) \div 2, values |-> values]
        ELSE [value |-> sorted[mid + 1], values |-> values]

(* SpecMedian: one call of calculateMedian *)

MedianValues == {Px(1), Px(4), Px(5), Px(10)}

InitMedian ==
    /\ pc = "median"
    /\ visionInit = FALSE
    /\ IdleRun /\ IdlePoll /\ IdleFiles
    /\ arg \in SeqUpTo(MedianValues, MaxValues)
    /\ ret = <<>>

MedianCall ==
    /\ pc = "median"
    /\ ret' = calculateMedian(arg)
    /\ pc' = "medianDone"
    /\ UNCHANGED <<runVars, pollVars, visionInit, localJsonFiles, disk, sortedFiles,
                   responses, pages, outputPath, arg>>

NextMedian == MedianCall

SpecMedian == InitMedian /\ [][NextMedian]_vars

---------------------------------------------------------------------------
(* ParserService.extractTextWithOptions.  A symbol is [text, ys, brk]: its *)
(* text, the y coordinates (v.y || 0) of the vertices of its bounding box  *)
(* (<<>> without a bounding box) and the type of its                       *)
(* property.detectedBreak ("none" without one).  A paragraph is the        *)
(* sequence of the symbols of its words, a block a sequence of paragraphs, *)
(* a page a sequence of blocks.  The options are                           *)
(* [removeRuby, normalizeLineBreaks].                                      *)

\* most symbols of the first paragraph of a block
MaxGlyphs == 4

\* RUBY_HEIGHT_RATIO_THRESHOLD = 0.6, in tenths
RUBY_HEIGHT_RATIO_THRESHOLD == 6

MinOf(ys) == CHOOSE y \in {ys[i] : i \in 1..Len(ys)} : \A i \in 1..Len(ys) : y <= ys[i]
MaxOf(ys) == CHOOSE y \in {ys[i] : i \in 1..Len(ys)} : \A i \in 1..Len(ys) : y >= ys[i]

getSymbolHeight(symbol) ==
    IF Len(symbol.ys) < 4 THEN 0 ELSE MaxOf(symbol.ys) - MinOf(symbol.ys)

\* allHeights of a paragraph: the positive heights of its symbols
RECURSIVE paragraphHeights(_)
paragraphHeights(par) ==
    IF Len(par) = 0 THEN <<>>
    ELSE LET before == paragraphHeights(SubSeq(par, 1, Len(par) - 1))
             height == getSymbolHeight(par[Len(par)])
         IN  IF height > 0 THEN Append(before, height) ELSE before

\* allHeights of a block
RECURSIVE allHeights(_)
allHeights(block) ==
    IF Len(block) = 0 THEN <<>>
    ELSE allHeights(SubSeq(block, 1, Len(block) - 1)) \o paragraphHeights(block[Len(block)])

\* variant: a threshold of 1.6 times the median
rubyThresholdAboveMedian(block, removeRuby) ==
    IF removeRuby THEN calculateMedian(allHeights(block)).value * 16 ELSE 0

\* medianHeight * RUBY_HEIGHT_RATIO_THRESHOLD, in tenths of a half pixel;
\* 0 with removeRuby off
rubyThreshold(block, removeRuby) ==
    IF removeRuby
    THEN calculateMedian(allHeights(block)).value * RUBY_HEIGHT_RATIO_THRESHOLD
    ELSE 0

\* the ruby test with <= in place of <
isRubyAtThreshold(symbol, threshold) ==
    getSymbolHeight(symbol) > 0 /\ getSymbolHeight(symbol) * 10 <= threshold

\* height > 0 && height < rubyThreshold
isRuby(symbol, threshold) ==
    getSymbolHeight(symbol) > 0 /\ getSymbolHeight(symbol) * 10 < threshold

\* the types of detectedBreak that push ' ' and those that push '\n'
SpaceBreaks == {"SPACE", "SURE_SPACE"}
LineBreaks  == {"LINE_BREAK", "EOL_SURE_SPACE"}

\* symbolParts that pushes the break of a symbol before its text
symbolPartsBreakFirst(symbol, options) ==
    (IF symbol.brk \in SpaceBreaks THEN <<" ">>
     ELSE IF symbol.brk \in LineBreaks /\ ~options.normalizeLineBreaks THEN <<"\n">>
     ELSE <<>>) \o <<symbol.text>>

\* what a kept symbol pushes: its text, then ' ' for a space break in either
\* mode and '\n' for a line break unless normalizeLineBreaks is on
symbolParts(symbol, options) ==
    <<symbol.text>>
        \o (IF symbol.brk \in SpaceBreaks THEN <<" ">>
            ELSE IF symbol.brk \in LineBreaks /\ ~options.normalizeLineBreaks THEN <<"\n">>
            ELSE <<>>)

\* paragraphParts of a paragraph
RECURSIVE paragraphParts(_, _, _)
paragraphParts(par, threshold, options) ==
    IF Len(par) = 0 THEN <<>>
    ELSE LET before == paragraphParts(SubSeq(par, 1, Len(par) - 1), threshold, options)
         IN  IF options.removeRuby /\ isRuby(par[Len(par)], threshold)
             THEN before ELSE before \o symbolParts(par[Len(par)], options)

\* the paragraph texts a block adds: paragraphParts.join('').trim(), when
\* not empty
RECURSIVE blockTexts(_, _, _)
blockTexts(pars, threshold, options) ==
    IF Len(pars) = 0 THEN <<>>
    ELSE LET before == blockTexts(SubSeq(pars, 1, Len(pars) - 1), threshold, options)
             text   == Trim(paragraphParts(pars[Len(pars)], threshold, options))
         IN  IF text # <<>> THEN Append(before, text) ELSE before

\* paragraphTexts over the blocks of a page
RECURSIVE pageTexts(_, _)
pageTexts(blocks, options) ==
    IF Len(blocks) = 0 THEN <<>>
    ELSE pageTexts(SubSeq(blocks, 1, Len(blocks) - 1), options)
            \o blockTexts(blocks[Len(blocks)],
                          rubyThreshold(blocks[Len(blocks)], options.removeRuby),
                          options)

\* paragraphTexts over the pages
RECURSIVE paragraphTexts(_, _)
paragraphTexts(ps, options) ==
    IF Len(ps) = 0 THEN <<>>
    ELSE paragraphTexts(SubSeq(ps, 1, Len(ps) - 1), options) \o pageTexts(ps[Len(ps)], options)

\* paragraphTexts.join(sep)
RECURSIVE JoinWith(_, _)
JoinWith(texts, sep) ==
    IF Len(texts) = 0 THEN <<>>
    ELSE IF Len(texts) = 1 THEN texts[1]
    ELSE JoinWith(SubSeq(texts, 1, Len(texts) - 1), sep) \o sep \o texts[Len(texts)]

\* variant: the paragraphs are joined by a line break in both modes
extractTextWithOptionsSingleJoin(ps, options) ==
    JoinWith(paragraphTexts(ps, options), <<"\n">>)

\* the paragraph texts joined by an empty line in normalizing mode and by
\* a line break otherwise
extractTextWithOptions(ps, options) ==
    JoinWith(paragraphTexts(ps, options),
             IF options.normalizeLineBreaks THEN <<"\n", "\n">> ELSE <<"\n">>)

ExtractTextOptions == [removeRuby : BOOLEAN, normalizeLineBreaks : BOOLEAN]
RubyOn == [removeRuby |-> TRUE, normalizeLineBreaks |-> FALSE]

(* SpecRuby: one call of extractTextWithOptions on one page *)

Box(top, bottom) == <<Px(top), Px(top), Px(bottom), Px(bottom)>>
Glyph(text, ys, brk) == [text |-> text, ys |-> ys, brk |-> brk]

\* symbols of height 10, 4, 6 and 5, one whose four vertices lie on a
\* line, one with three vertices only
Glyphs ==
    { Glyph("A", Box(0, 10), "none"),
      Glyph("r", Box(1, 5), "none"),
      Glyph("s", Box(0, 6), "none"),
      Glyph("t", Box(2, 7), "none"),
      Glyph("z", Box(3, 3), "none"),
      Glyph("v", <<Px(0), Px(10), Px(10)>>, "none") }

TallParagraph == [i \in 1..3 |-> Glyph("A", Box(0, 10), "none")]
SmallBlock    == << [i \in 1..2 |-> Glyph("r", Box(1, 5), "none")] >>

RubyBlocks ==
    {<<par>> : par \in SeqUpTo(Glyphs, MaxGlyphs)}
    \cup {<<par, TallParagraph>> : par \in SeqUpTo(Glyphs, 2)}

InitRuby ==
    /\ pc = "ruby"
    /\ visionInit = FALSE
    /\ IdleRun /\ IdlePoll /\ IdleFiles
    /\ arg \in {<<b>> : b \in RubyBlocks} \cup {<<b, SmallBlock>> : b \in RubyBlocks}
    /\ ret = <<>>

RubyCall ==
    /\ pc = "ruby"
    /\ ret' = extractTextWithOptions(<<arg>>, RubyOn)
    /\ pc' = "rubyDone"
    /\ UNCHANGED <<runVars, pollVars, visionInit, localJsonFiles, disk, sortedFiles,
                   responses, pages, outputPath, arg>>

NextRuby == RubyCall

SpecRuby == InitRuby /\ [][NextRuby]_vars


(* SpecBreaks: one call of extractTextWithOptions on one page of one      *)
(* block, under each setting of the options                               *)

\* most symbols of the first paragraph of the block
MaxBreakGlyphs == 3

\* types of detectedBreak: those the code tests for, and HYPHEN
BreakTypes == {"none", "SPACE", "SURE_SPACE", "LINE_BREAK", "EOL_SURE_SPACE", "HYPHEN"}

\* a symbol of height 10 with any break, one of height 4 with some
BreakGlyphs ==
    {Glyph("A", Box(0, 10), b) : b \in BreakTypes}
    \cup {Glyph("r", Box(1, 5), b) : b \in {"none", "SPACE", "LINE_BREAK"}}

LastParagraph == <<Glyph("A", Box(0, 10), "none"), Glyph("A", Box(0, 10), "LINE_BREAK")>>

BreakBlocks ==
    {<<par>> : par \in SeqUpTo(BreakGlyphs, MaxBreakGlyphs)}
    \cup {<<par, LastParagraph>> : par \in SeqUpTo(BreakGlyphs, MaxBreakGlyphs)}

InitBreaks ==
    /\ pc = "breaks"
    /\ visionInit = FALSE
    /\ IdleRun /\ IdlePoll /\ IdleFiles
    /\ arg \in [block : BreakBlocks, options : ExtractTextOptions]
    /\ ret = <<>>

BreaksCall ==
    /\ pc = "breaks"
    /\ ret' = extractTextWithOptions(<< <<arg.block>> >>, arg.options)
    /\ pc' = "breaksDone"
    /\ UNCHANGED <<runVars, pollVars, visionInit, localJsonFiles, disk, sortedFiles,
                   responses, pages, outputPath, arg>>

NextBreaks == BreaksCall

SpecBreaks == InitBreaks /\ [][NextBreaks]_vars

---------------------------------------------------------------------------
(* splitSpreadPdf.  A source page is its size [width, height] (getSize),   *)
(* in half points so that width / 2 is an integer; an output page is       *)
(* [source, x, y, width, height]: the index of the page it copies and the  *)
(* box set as its crop box and media box (the whole page when copied as    *)
(* it is).                                                                 *)

\* most pages of a source document
MaxSourcePages == 3

\* isSpread with >= in place of >
isSpreadOrSquare(width, height) == width >= height

isSpread(width, height) == width > height

\* the crop boxes with the left half first whatever the reading order
cropBoxesLeftFirst(rightToLeft, width, height) ==
    LET halfWidth == width \div 2
    IN  << [left |-> 0, bottom |-> 0, right |-> halfWidth, top |-> height],
           [left |-> halfWidth, bottom |-> 0, right |-> width, top |-> height] >>

\* <<firstCropBox, secondCropBox>>
cropBoxes(rightToLeft, width, height) ==
    LET halfWidth == width \div 2
        leftHalf  == [left |-> 0, bottom |-> 0, right |-> halfWidth, top |-> height]
        rightHalf == [left |-> halfWidth, bottom |-> 0, right |-> width, top |-> height]
    IN  IF rightToLeft THEN <<rightHalf, leftHalf>> ELSE <<leftHalf, rightHalf>>

\* copyPages(inputPdf, [i]) with setCropBox / setMediaBox(left, bottom,
\* halfWidth, height)
HalfPage(i, box, width, height) ==
    [source |-> i, x |-> box.left, y |-> box.bottom,
     width |-> width \div 2, height |-> height]

\* the pages one pass of the loop adds to outputPdf
splitPage(size, i, rightToLeft) ==
    IF isSpread(size.width, size.height)
    THEN LET boxes == cropBoxes(rightToLeft, size.width, size.height)
         IN  << HalfPage(i, boxes[1], size.width, size.height),
                HalfPage(i, boxes[2], size.width, size.height) >>
    ELSE << [source |-> i, x |-> 0, y |-> 0,
             width |-> size.width, height |-> size.height] >>

\* outputPdf after the first n passes
RECURSIVE splitLoop(_, _, _)
splitLoop(sizes, n, rightToLeft) ==
    IF n = 0 THEN <<>>
    ELSE splitLoop(sizes, n - 1, rightToLeft) \o splitPage(sizes[n], n, rightToLeft)

splitSpreadPdf(sizes, rightToLeft) == splitLoop(sizes, Len(sizes), rightToLeft)

(* SpecSplit: one call of splitSpreadPdf on a loaded document *)

PageSizes == [width : {Px(1), Px(2), Px(3)}, height : {Px(1), Px(2), Px(3)}]

InitSplit ==
    /\ pc = "split"
    /\ visionInit = FALSE
    /\ IdleRun /\ IdlePoll /\ IdleFiles
    /\ arg \in [sizes : SeqUpTo(PageSizes, MaxSourcePages), rightToLeft : BOOLEAN]
    /\ ret = <<>>

SplitCall ==
    /\ pc = "split"
    /\ ret' = splitSpreadPdf(arg.sizes, arg.rightToLeft)
    /\ pc' = "splitDone"
    /\ UNCHANGED <<runVars, pollVars, visionInit, localJsonFiles, disk, sortedFiles,
                   responses, pages, outputPath, arg>>

NextSplit == SplitCall

SpecSplit == InitSplit /\ [][NextSplit]_vars

---------------------------------------------------------------------------
(* ParserService.extractText.  The second argument is any value: an       *)
(* options object, or a boolean, which has none of the two properties.    *)

ObjectValue(o)  == [type |-> "object", removeRuby |-> o.removeRuby,
                    normalizeLineBreaks |-> o.normalizeLineBreaks]
BooleanValue(b) == [type |-> "boolean", removeRuby |-> FALSE, normalizeLineBreaks |-> FALSE]

\* const {removeRuby = false, normalizeLineBreaks = false} = options
Destructure(options) ==
    [removeRuby |-> options.type = "object" /\ options.removeRuby,
     normalizeLineBreaks |-> options.type = "object" /\ options.normalizeLineBreaks]

\* extractItem that pushes nothing for an element without fullTextAnnotation
extractItemSkipEmpty(item, options) ==
    IF item.kind = "text" THEN <<item.text>> ELSE <<>>

\* extractItem that walks the pages whenever an option is on
extractItemAlwaysDetailed(item, options) ==
    IF item.kind # "text" THEN <<<<>>>>
    ELSE IF options.removeRuby \/ options.normalizeLineBreaks
    THEN <<extractTextWithOptions(item.pages, options)>>
    ELSE <<item.text>>

\* what the inner loop pushes for one element: '' without
\* fullTextAnnotation; the text of extractTextWithOptions when an option is
\* on and there are pages; otherwise fullTextAnnotation.text || ''
extractItem(item, options) ==
    IF item.kind # "text" THEN <<<<>>>>
    ELSE IF (options.removeRuby \/ options.normalizeLineBreaks) /\ item.hasPages
    THEN <<extractTextWithOptions(item.pages, options)>>
    ELSE <<item.text>>

\* the inner loop over response.responses
RECURSIVE extractItems(_, _)
extractItems(items, options) ==
    IF Len(items) = 0 THEN <<>>
    ELSE extractItems(SubSeq(items, 1, Len(items) - 1), options)
            \o extractItem(items[Len(items)], options)

\* the outer loop over responses
RECURSIVE extractLoop(_, _)
extractLoop(rs, options) ==
    IF Len(rs) = 0 THEN <<>>
    ELSE extractLoop(SubSeq(rs, 1, Len(rs) - 1), options)
            \o extractItems(rs[Len(rs)].items, options)

\* some element makes the property read throw
ExtractThrows(rs) ==
    \E i \in 1..Len(rs) : \E k \in 1..Len(rs[i].items) : rs[i].items[k].kind = "null"

extractText(rs, options) ==
    IF ExtractThrows(rs)
    THEN [ok |-> FALSE, err |-> TEXT_EXTRACTION_FAILED, value |-> <<>>]
    ELSE [ok |-> TRUE, err |-> "none", value |-> extractLoop(rs, Destructure(options))]

(* SpecExtract: one call of extractText on parsed result files *)

\* a page of one block of one paragraph: two symbols of height 10 around a
\* ruby symbol of height 4, with a space and two line breaks
ExtractPage ==
    << << <<Glyph("A", Box(0, 10), "LINE_BREAK"), Glyph("r", Box(1, 5), "SPACE"),
            Glyph("A", Box(0, 10), "LINE_BREAK")>> >> >>

\* the elements of a 'responses' array: null, one without
\* fullTextAnnotation, and fullTextAnnotation with or without 'text' and
\* with or without 'pages' (an empty array, or the page above)
ExtractItems ==
    {NullItem, NoAnnotation, TextItem(<<>>), TextItem(<<"A", "\n", "r", " ", "A", "\n">>),
     DetailItem(<<"A", "\n", "r", " ", "A", "\n">>, <<>>),
     DetailItem(<<"A", "\n", "r", " ", "A", "\n">>, <<ExtractPage>>),
     DetailItem(<<>>, <<ExtractPage>>)}

\* one parsed file, or one followed by a file of one element or of none
ExtractResponses ==
    LET first == {FileOf(items) : items \in SeqUpTo(ExtractItems, MaxResponses)}
        second == {FileOf(<<>>), FileOf(<<NoAnnotation>>),
                   FileOf(<<DetailItem(<<"A">>, <<ExtractPage>>)>>)}
    IN  {<<>>} \cup {<<f>> : f \in first} \cup {<<f, g>> : f \in first, g \in second}

\* the second argument: an options object, or a boolean
ExtractArguments ==
    {ObjectValue(o) : o \in ExtractTextOptions} \cup {BooleanValue(b) : b \in BOOLEAN}

InitExtract ==
    /\ pc = "extract"
    /\ visionInit = FALSE
    /\ IdleRun /\ IdlePoll /\ IdleFiles
    /\ arg \in [rs : ExtractResponses, options : ExtractArguments]
    /\ ret = <<>>

ExtractCall ==
    /\ pc = "extract"
    /\ ret' = extractText(arg.rs, arg.options)
    /\ pc' = "extractDone"
    /\ UNCHANGED <<runVars, pollVars, visionInit, localJsonFiles, disk, sortedFiles,
                   responses, pages, outputPath, arg>>

NextExtract == ExtractCall

SpecExtract == InitExtract /\ [][NextExtract]_vars

---------------------------------------------------------------------------
(* VisionService.pollOperation *)

\* time an awaited call may take beyond its minimum, in ms: none or an hour
\* in a run, and also a single ms in a direct call of pollOperation
Delays == IF pc = "pollDirect" THEN {0, 1, RunTimeoutMs} ELSE {0, RunTimeoutMs}

\* time a timer may fire late, in ms: in a run not at all or by seven
\* minutes
SleepDelays == IF pc = "pollDirect" THEN Delays ELSE {0, 420000}

\* 45 + Math.min((elapsed / 60000) * 5, 30), in units of 1/12000 percent
Pct(n) == n * 12000
Min(a, b) == IF a <= b THEN a ELSE b
\* variant: the percentage of a poll tick without its cap
PollPctUncapped(elapsed) == Pct(45) + elapsed

PollPct(elapsed) == Pct(45) + Min(elapsed, Pct(30))

\* ProgressEvent, ErrorEvent, CompleteEvent (one record shape: progress is
\* the percentage of a progress event and the page count of a completion)
Progress(step, progress) ==
    [kind |-> "progress", step |-> step, progress |-> progress, code |-> "none"]
Error(step, code) ==
    [kind |-> "error", step |-> step, progress |-> 0, code |-> code]
Complete(n) ==
    [kind |-> "complete", step |-> "none", progress |-> n, code |-> "none"]

\* sendProgressEvent / sendErrorEvent / sendCompleteEvent: sent only while
\* the window exists
Send(evs, e) == IF mainWindow THEN Append(evs, e) ELSE evs

\* the callback runBatchOCRProcess passes as onProgress
\* (a direct call passes one that sends nothing)
OnProgress(evs, elapsed) ==
    IF pc = "poll" THEN Send(evs, Progress("polling", PollPct(elapsed))) ELSE evs

\* entry of pollOperation: ensureInitialized, startTime, pollCount
pollOperation(timeoutMs, intervalMs) ==
    /\ pollTimeout' = timeoutMs
    /\ pollInterval' = intervalMs
    /\ pollCount' = 0
    /\ IF ~visionInit
       THEN /\ pollState' = "failed"
            /\ pollErr' = GCP_AUTH_FAILED
            /\ UNCHANGED pollStart
       ELSE /\ pollState' = "loop"
            /\ pollErr' = "none"
            /\ pollStart' = now
    /\ UNCHANGED <<now, pollElapsed, iterElapsed, statuses, progressCalls, sleeps>>

\* top of the while loop: pollCount++, elapsed, the timeout check
PollIterationGE ==
    /\ pollState = "loop"
    /\ pollCount <= MaxPolls
    /\ pollCount' = pollCount + 1
    /\ pollElapsed' = now - pollStart
    /\ iterElapsed' = Append(iterElapsed, now - pollStart)
    /\ IF now - pollStart >= pollTimeout
       THEN pollState' = "failed" /\ pollErr' = OPERATION_TIMEOUT
       ELSE pollState' = "query" /\ UNCHANGED pollErr
    /\ UNCHANGED <<pc, runVars, dataVars, visionInit, pollTimeout, pollInterval,
                   now, pollStart, statuses, progressCalls, sleeps>>

\* the loop without its timeout check
PollIterationNoTimeout ==
    /\ pollState = "loop"
    /\ pollCount <= MaxPolls
    /\ pollCount' = pollCount + 1
    /\ pollElapsed' = now - pollStart
    /\ iterElapsed' = Append(iterElapsed, now - pollStart)
    /\ pollState' = "query" /\ UNCHANGED pollErr
    /\ UNCHANGED <<pc, runVars, dataVars, visionInit, pollTimeout, pollInterval,
                   now, pollStart, statuses, progressCalls, sleeps>>

\* (iterations beyond MaxPolls + 1 are not explored: with the timeouts and
\* intervals of SpecPoll and the statuses of a run none is reached)
PollIteration ==
    /\ pollState = "loop"
    /\ pollCount <= MaxPolls
    /\ pollCount' = pollCount + 1
    /\ pollElapsed' = now - pollStart
    /\ iterElapsed' = Append(iterElapsed, now - pollStart)
    /\ IF now - pollStart > pollTimeout
       THEN pollState' = "failed" /\ pollErr' = OPERATION_TIMEOUT
       ELSE pollState' = "query" /\ UNCHANGED pollErr
    /\ UNCHANGED <<pc, runVars, dataVars, visionInit, pollTimeout, pollInterval,
                   now, pollStart, statuses, progressCalls, sleeps>>

\* the statuses a query may return; in a run the remote operation answers
\* "not done, no error" to at most MaxPolls queries
StatusSet ==
    {st \in [done : BOOLEAN, error : BOOLEAN, threw : {FALSE}] :
        (pc = "poll" /\ ~st.done /\ ~st.error) => pollCount < MaxPolls}

\* what follows a returned status: the error check, then the done check
AfterStatusDoneFirst(st) ==
    IF st.done THEN pollState' = "returned" /\ UNCHANGED pollErr
    ELSE IF st.error THEN pollState' = "failed" /\ pollErr' = API_REQUEST_FAILED
    ELSE pollState' = "sleep" /\ UNCHANGED pollErr

AfterStatus(st) ==
    IF st.error THEN pollState' = "failed" /\ pollErr' = API_REQUEST_FAILED
    ELSE IF st.done THEN pollState' = "returned" /\ UNCHANGED pollErr
    ELSE pollState' = "sleep" /\ UNCHANGED pollErr

\* PollStatus that calls onProgress after the two checks
PollStatusCallbackLast ==
    /\ pollState = "query"
    /\ \E d \in Delays : now' = now + d
    /\ \/ \E st \in StatusSet :
            /\ statuses' = Append(statuses, st)
            /\ IF st.error \/ st.done
               THEN UNCHANGED <<progressCalls, events>>
               ELSE /\ progressCalls' = Append(progressCalls, pollElapsed)
                    /\ events' = OnProgress(events, pollElapsed)
            /\ AfterStatus(st)
       \/ /\ statuses' = Append(statuses, [done |-> FALSE, error |-> FALSE, threw |-> TRUE])
          /\ pollState' = "failed"
          /\ pollErr' = API_REQUEST_FAILED
          /\ UNCHANGED <<progressCalls, events>>
    /\ UNCHANGED <<extVars, pc, filePath, job, keyfile, pollingIntervalMs, mainWindow, calls,
                   gcsInit, tempDir, dirExists, rmFailed, err, result, jsonFiles,
                   pageCount, dataVars, visionInit, pollTimeout, pollInterval,
                   pollStart, pollCount, pollElapsed, iterElapsed, sleeps>>

\* await getOperationStatus, then onProgress and the two checks
PollStatus ==
    /\ pollState = "query"
    /\ \E d \in Delays : now' = now + d
    /\ \/ \E st \in StatusSet :
            /\ statuses' = Append(statuses, st)
            /\ progressCalls' = Append(progressCalls, pollElapsed)
            /\ events' = OnProgress(events, pollElapsed)
            /\ AfterStatus(st)
       \/ \* getOperation rejects: getOperationStatus throws API_REQUEST_FAILED
          /\ statuses' = Append(statuses, [done |-> FALSE, error |-> FALSE, threw |-> TRUE])
          /\ pollState' = "failed"
          /\ pollErr' = API_REQUEST_FAILED
          /\ UNCHANGED <<progressCalls, events>>
    /\ UNCHANGED <<extVars, pc, filePath, job, keyfile, pollingIntervalMs, mainWindow, calls,
                   gcsInit, tempDir, dirExists, rmFailed, err, result, jsonFiles,
                   pageCount, dataVars, visionInit, pollTimeout, pollInterval,
                   pollStart, pollCount, pollElapsed, iterElapsed, sleeps>>

\* PollSleep with an interval that grows with the poll count
PollSleepEscalating ==
    /\ pollState = "sleep"
    /\ \E d \in SleepDelays : now' = now + pollInterval * pollCount + d
    /\ sleeps' = Append(sleeps, pollInterval * pollCount)
    /\ pollState' = "loop"
    /\ UNCHANGED <<pc, runVars, dataVars, visionInit, pollTimeout, pollInterval,
                   pollStart, pollCount, pollElapsed, pollErr, iterElapsed,
                   statuses, progressCalls>>

\* await this.sleep(intervalMs): setTimeout fires after at least intervalMs
PollSleep ==
    /\ pollState = "sleep"
    /\ \E d \in SleepDelays : now' = now + pollInterval + d
    /\ sleeps' = Append(sleeps, pollInterval)
    /\ pollState' = "loop"
    /\ UNCHANGED <<pc, runVars, dataVars, visionInit, pollTimeout, pollInterval,
                   pollStart, pollCount, pollElapsed, pollErr, iterElapsed,
                   statuses, progressCalls>>

(* SpecPoll: one direct call of pollOperation *)

InitPoll ==
    /\ pc = "pollDirect"
    /\ visionInit \in BOOLEAN
    /\ IdleRun /\ IdleData
    /\ pollState = "idle"
    /\ pollTimeout \in 0..MaxTimeout
    /\ pollInterval \in 1..MaxInterval
    /\ now = 0
    /\ pollStart = 0
    /\ pollCount = 0
    /\ pollElapsed = 0
    /\ pollErr = "none"
    /\ iterElapsed = <<>>
    /\ statuses = <<>>
    /\ progressCalls = <<>>
    /\ sleeps = <<>>

PollCall ==
    /\ pc = "pollDirect"
    /\ pollState = "idle"
    /\ pollOperation(pollTimeout, pollInterval)
    /\ UNCHANGED <<pc, runVars, dataVars, visionInit>>

NextPoll == PollCall \/ PollIteration \/ PollStatus \/ PollSleep

SpecPoll == InitPoll /\ [][NextPoll]_vars

\* the same call when every step that can be taken is taken: the status
\* query answers, the timer of sleep fires, the loop goes on
SpecPollFair == SpecPoll /\ WF_vars(NextPoll)

---------------------------------------------------------------------------
(* The 'start-ocr' handler: runOCRProcess, runBatchOCRProcess,            *)
(* runSyncOCRProcess.  One action per awaited step; an action takes the    *)
(* step from its start to its outcome.                                     *)

\* extensions of the source file, as written in its name ("" for none)
FileExts == {"pdf", "PDF", "jpg", "JPEG", "png", "txt", ""}

\* String.prototype.toLowerCase on these extensions
ToLowerCase(e) ==
    CASE e = "PDF" -> "pdf" [] e = "JPEG" -> "jpeg" [] OTHER -> e

\* config.pollingIntervalMs values of a run
RunIntervals == {10000}

\* supportsBatchProcessing without toLowerCase
supportsBatchProcessingCaseSensitive(fp) ==
    fp.ext \in {"pdf", "gif", "tiff", "tif"}

supportsBatchProcessing(fp) ==
    ToLowerCase(fp.ext) \in {"pdf", "gif", "tiff", "tif"}

\* the mimeTypes table; "none" where getMimeType throws
getMimeType(fp) ==
    LET ext == ToLowerCase(fp.ext)
    IN  CASE ext = "pdf" -> "application/pdf"
          [] ext \in {"jpg", "jpeg"} -> "image/jpeg"
          [] ext = "png" -> "image/png"
          [] ext \in {"tiff", "tif"} -> "image/tiff"
          [] ext = "gif" -> "image/gif"
          [] OTHER -> "none"

\* a step of the run: op, whether it succeeded, whether it sent a request
\* to the remote storage or OCR service
Call(op, ok, remote) == [op |-> op, ok |-> ok, remote |-> remote]

\* object names a listing of the output prefix may hold
RemoteNames == {OutputName(<<"1">>), OutputName(<<"2">>), OutputName(<<"1", "0">>), <<"x">>}

\* object names are unique in a bucket: a listing holds no name twice
Listings ==
    {l \in SeqUpTo(RemoteNames, MaxListing) :
        \A i, j \in 1..Len(l) : i # j => l[i] # l[j]}

\* the page of a result file: a block of one paragraph, the name of the
\* file in symbols of height 10 and after it a ruby symbol of height 4 and
\* one more symbol of height 10, with a line break, a space and a line
\* break
RunPage(name) ==
    << << [k \in 1..Len(name) |->
            Glyph(name[k], Box(0, 10), IF k = Len(name) THEN "LINE_BREAK" ELSE "none")]
          \o <<Glyph("r", Box(1, 5), "SPACE"), Glyph("A", Box(0, 10), "LINE_BREAK")>> >> >>

\* fullTextAnnotation.text of that page: every symbol and every break
RunText(name) == name \o <<"\n", "r", " ", "A", "\n">>

\* contents a downloaded result file may have
RunContents(name) ==
    {InvalidFile}
    \cup {FileOf(items) : items \in
            { <<TextItem(name \o <<"p1">>)>>,
              <<NullItem>>,
              <<DetailItem(RunText(name), <<RunPage(name)>>), NoAnnotation>> }}

\* f.endsWith('.json')
EndsWithJson(name) == Len(name) > 0 /\ name[Len(name)] = ".json"

\* join(tempDir, basename(jsonFile))
LocalPath(name) == <<"x">> \o name

\* variant: one page counted for each parsed file
countPagesOfFiles(rs) == Len(rs)

\* ParserService.countPages
RECURSIVE countPages(_)
countPages(rs) ==
    IF Len(rs) = 0 THEN 0
    ELSE countPages(SubSeq(rs, 1, Len(rs) - 1)) + rs[Len(rs)].n

\* basename(filePath): the file name, with its extension as written
basename(fp) == IF fp.ext = "" THEN <<"doc">> ELSE <<"doc", ".", fp.ext>>

\* fileName.replace(/\.(a|b|...)$/i, '.md') for the extensions exts
replaceExtension(fileName, exts) ==
    IF Len(fileName) >= 2 /\ fileName[Len(fileName) - 1] = "."
            /\ ToLowerCase(fileName[Len(fileName)]) \in exts
    THEN SubSeq(fileName, 1, Len(fileName) - 2) \o <<".", "md">>
    ELSE fileName

\* config.defaultOutputDir
defaultOutputDir == <<"out">>

\* path.join
join(dir, name) == dir \o <<"/">> \o name

\* a throw inside the try of runBatchOCRProcess: on to its finally
BatchThrow(code) == err' = code /\ pc' = "finally"

\* the catch of the handler: sendErrorEvent('ocr', error), { success: false }
HandlerCatch(evs, code) ==
    /\ err' = code
    /\ events' = Send(evs, Error("ocr", code))
    /\ result' = "failure"
    /\ pc' = "done"

\* the jobs of the runs: one that asks for nothing, one with a timeout of
\* five seconds, ruby removal, line-break normalizing and spread splitting
Jobs ==
    { DefaultJob,
      [timeoutMs |-> 5000, removeRuby |-> TRUE,
       normalizeLineBreaks |-> TRUE, splitSpread |-> TRUE] }

\* the arguments of the handler: any file with the job that asks for
\* nothing, a pdf file with any job
StartOcrArguments ==
    {<<[ext |-> e], DefaultJob>> : e \in FileExts}
    \cup {<<[ext |-> "pdf"], j>> : j \in Jobs}

Init ==
    /\ pc = "idle"
    /\ \E a \in StartOcrArguments : filePath = a[1] /\ job = a[2]
    /\ keyfile \in BOOLEAN
    /\ pollingIntervalMs \in RunIntervals
    /\ mainWindow = TRUE
    /\ events = <<>>
    /\ calls = <<>>
    /\ gcsInit = FALSE
    /\ visionInit = FALSE
    /\ tempDir = FALSE
    /\ dirExists = FALSE
    /\ rmFailed = FALSE
    /\ err = "none"
    /\ result = "none"
    /\ jsonFiles = <<>>
    /\ pageCount = 0
    /\ IdleData /\ IdlePoll /\ IdleExt

\* mainWindow.on('closed')
WindowClosed ==
    /\ mainWindow /\ pc # "done"
    /\ mainWindow' = FALSE
    /\ UNCHANGED <<extVars, pc, filePath, job, keyfile, pollingIntervalMs, events, calls, gcsInit,
                   visionInit, tempDir, dirExists, rmFailed, err, result, jsonFiles,
                   pageCount, dataVars, pollVars>>

\* the handler up to the branch of runOCRProcess: await fs.access(filePath)
StartOcr ==
    /\ pc = "idle"
    /\ \/ /\ calls' = Append(calls, Call("access", TRUE, FALSE))
          /\ pc' = IF supportsBatchProcessing(filePath) THEN "gcsInit" ELSE "syncInit"
          /\ UNCHANGED <<err, events, result>>
       \/ /\ calls' = Append(calls, Call("access", FALSE, FALSE))
          /\ HandlerCatch(events, UNTYPED)
    /\ UNCHANGED <<extVars, filePath, job, keyfile, pollingIntervalMs, mainWindow, gcsInit, visionInit,
                   tempDir, dirExists, rmFailed, jsonFiles, pageCount, dataVars, pollVars>>

\* Step 1: await gcsService.initialize(config.gcpKeyfilePath)
GcsInitialize ==
    /\ pc = "gcsInit"
    /\ events' = Send(events, Progress("upload", Pct(0)))
    /\ IF ~keyfile
       THEN /\ gcsInit' = FALSE
            /\ calls' = Append(calls, Call("gcs.initialize", FALSE, FALSE))
            /\ BatchThrow(GCP_AUTH_FAILED)
       ELSE \/ /\ gcsInit' = TRUE
               /\ calls' = Append(calls, Call("gcs.initialize", TRUE, TRUE))
               /\ pc' = "visionInit"
               /\ UNCHANGED err
            \/ /\ gcsInit' = FALSE
               /\ calls' = Append(calls, Call("gcs.initialize", FALSE, TRUE))
               /\ BatchThrow(GCP_AUTH_FAILED)
    /\ UNCHANGED <<extVars, filePath, job, keyfile, pollingIntervalMs, mainWindow, visionInit, tempDir,
                   dirExists, rmFailed, result, jsonFiles, pageCount, dataVars, pollVars>>

\* Step 1: await visionService.initialize(config.gcpKeyfilePath)
VisionInitialize ==
    /\ pc = "visionInit"
    /\ IF ~keyfile
       THEN /\ visionInit' = FALSE
            /\ calls' = Append(calls, Call("vision.initialize", FALSE, FALSE))
            /\ BatchThrow(GCP_AUTH_FAILED)
       ELSE \/ /\ visionInit' = TRUE
               /\ calls' = Append(calls, Call("vision.initialize", TRUE, FALSE))
               /\ pc' = "bucketCheck"
               /\ UNCHANGED err
            \/ /\ visionInit' = FALSE
               /\ calls' = Append(calls, Call("vision.initialize", FALSE, FALSE))
               /\ BatchThrow(GCP_AUTH_FAILED)
    /\ UNCHANGED <<extVars, filePath, job, keyfile, pollingIntervalMs, mainWindow, events, gcsInit,
                   tempDir, dirExists, rmFailed, result, jsonFiles, pageCount, dataVars,
                   pollVars>>

\* bucketExists treated as true whatever the check returned
BucketExistsIgnored ==
    /\ pc = "bucketCheck"
    /\ \E exists \in BOOLEAN :
            /\ calls' = Append(calls, Call("bucketExists", exists, TRUE))
            /\ pc' = "upload"
            /\ UNCHANGED err
    /\ UNCHANGED <<extVars, filePath, job, keyfile, pollingIntervalMs, mainWindow, events, gcsInit,
                   visionInit, tempDir, dirExists, rmFailed, result, jsonFiles, pageCount,
                   dataVars, pollVars>>

\* await gcsService.bucketExists(config.gcsBucketName); a rejected
\* bucket.exists() is caught by bucketExists and returns false
BucketExists ==
    /\ pc = "bucketCheck"
    /\ IF ~gcsInit
       THEN /\ calls' = Append(calls, Call("bucketExists", FALSE, FALSE))
            /\ BatchThrow(GCP_AUTH_FAILED)
       ELSE \/ /\ calls' = Append(calls, Call("bucketExists", TRUE, TRUE))
               /\ pc' = "upload"
               /\ UNCHANGED err
            \/ /\ calls' = Append(calls, Call("bucketExists", FALSE, TRUE))
               /\ BatchThrow(BUCKET_NOT_FOUND)
    /\ UNCHANGED <<extVars, filePath, job, keyfile, pollingIntervalMs, mainWindow, events, gcsInit,
                   visionInit, tempDir, dirExists, rmFailed, result, jsonFiles, pageCount,
                   dataVars, pollVars>>

\* the upload started and not awaited: the run goes on whatever its outcome
UploadFileNotAwaited ==
    /\ pc = "upload"
    /\ \E ok \in BOOLEAN :
            /\ calls' = Append(calls, Call("uploadFile", ok, TRUE))
            /\ events' = Send(Send(events, Progress("upload", Pct(10))),
                              Progress("upload", Pct(30)))
            /\ pc' = "submit"
            /\ UNCHANGED err
    /\ UNCHANGED <<extVars, filePath, job, keyfile, pollingIntervalMs, mainWindow, gcsInit, visionInit,
                   tempDir, dirExists, rmFailed, result, jsonFiles, pageCount, dataVars,
                   pollVars>>

\* Step 2: await gcsService.uploadFile(...)
\* UploadFile that tries again after a failed upload
UploadFileRetried ==
    /\ pc = "upload"
    /\ \/ /\ calls' = Append(calls, Call("uploadFile", TRUE, TRUE))
          /\ events' = Send(Send(events, Progress("upload", Pct(10))),
                            Progress("upload", Pct(30)))
          /\ pc' = "submit"
          /\ UNCHANGED err
       \/ /\ calls' = Append(calls, Call("uploadFile", FALSE, TRUE))
          /\ events' = Send(events, Progress("upload", Pct(10)))
          /\ UNCHANGED <<pc, err>>
    /\ UNCHANGED <<extVars, filePath, job, keyfile, pollingIntervalMs, mainWindow, gcsInit, visionInit,
                   tempDir, dirExists, rmFailed, result, jsonFiles, pageCount, dataVars,
                   pollVars>>

UploadFile ==
    /\ pc = "upload"
    /\ \/ /\ calls' = Append(calls, Call("uploadFile", TRUE, TRUE))
          /\ events' = Send(Send(events, Progress("upload", Pct(10))),
                            Progress("upload", Pct(30)))
          /\ pc' = "submit"
          /\ UNCHANGED err
       \/ /\ calls' = Append(calls, Call("uploadFile", FALSE, TRUE))
          /\ events' = Send(events, Progress("upload", Pct(10)))
          /\ BatchThrow(UPLOAD_FAILED)
    /\ UNCHANGED <<extVars, filePath, job, keyfile, pollingIntervalMs, mainWindow, gcsInit, visionInit,
                   tempDir, dirExists, rmFailed, result, jsonFiles, pageCount, dataVars,
                   pollVars>>

\* Step 3: await visionService.asyncBatchAnnotate(inputUri, outputUri)
AsyncBatchAnnotate ==
    /\ pc = "submit"
    /\ IF ~visionInit
       THEN /\ calls' = Append(calls, Call("asyncBatchAnnotate", FALSE, FALSE))
            /\ events' = Send(events, Progress("api-request", Pct(35)))
            /\ BatchThrow(GCP_AUTH_FAILED)
       ELSE IF getMimeType(filePath) = "none"
       THEN /\ calls' = Append(calls, Call("asyncBatchAnnotate", FALSE, FALSE))
            /\ events' = Send(events, Progress("api-request", Pct(35)))
            /\ BatchThrow(API_REQUEST_FAILED)
       ELSE \/ /\ calls' = Append(calls, Call("asyncBatchAnnotate", TRUE, TRUE))
               /\ events' = Send(Send(events, Progress("api-request", Pct(35))),
                                 Progress("api-request", Pct(40)))
               /\ pc' = "pollStart"
               /\ UNCHANGED err
            \/ \* the request rejects, or the operation has no name
               /\ calls' = Append(calls, Call("asyncBatchAnnotate", FALSE, TRUE))
               /\ events' = Send(events, Progress("api-request", Pct(35)))
               /\ BatchThrow(API_REQUEST_FAILED)
    /\ UNCHANGED <<extVars, filePath, job, keyfile, pollingIntervalMs, mainWindow, gcsInit, visionInit,
                   tempDir, dirExists, rmFailed, result, jsonFiles, pageCount, dataVars,
                   pollVars>>

\* Step 4: the call of visionService.pollOperation
PollStart ==
    /\ pc = "pollStart"
    /\ events' = Send(events, Progress("polling", Pct(45)))
    /\ pollOperation(RunTimeoutMs, pollingIntervalMs)
    /\ pc' = "poll"
    /\ UNCHANGED <<extVars, filePath, job, keyfile, pollingIntervalMs, mainWindow, calls, gcsInit,
                   visionInit, tempDir, dirExists, rmFailed, err, result, jsonFiles,
                   pageCount, dataVars>>

\* Step 4: pollOperation has returned or thrown (its locals are gone)
PollEnd ==
    /\ pc = "poll"
    /\ \/ /\ pollState = "returned"
          /\ calls' = Append(calls, Call("pollOperation", TRUE, TRUE))
          /\ events' = Send(events, Progress("polling", Pct(75)))
          /\ pc' = "mkdir"
          /\ UNCHANGED err
       \/ /\ pollState = "failed"
          /\ calls' = Append(calls, Call("pollOperation", FALSE, TRUE))
          /\ BatchThrow(pollErr)
          /\ UNCHANGED events
    /\ pollState' = "idle"
    /\ pollStart' = 0 /\ pollCount' = 0 /\ pollElapsed' = 0 /\ pollErr' = "none"
    /\ iterElapsed' = <<>> /\ statuses' = <<>> /\ progressCalls' = <<>>
    /\ sleeps' = <<>>
    /\ now' = 0    \* nothing but pollOperation reads the clock
    /\ UNCHANGED <<extVars, filePath, job, keyfile, pollingIntervalMs, mainWindow, gcsInit, visionInit,
                   tempDir, dirExists, rmFailed, result, jsonFiles, pageCount, dataVars,
                   pollTimeout, pollInterval>>

\* Step 5: tempDir = join(...); await fs.mkdir(tempDir, { recursive: true })
MkTempDir ==
    /\ pc = "mkdir"
    /\ events' = Send(events, Progress("download", Pct(80)))
    /\ tempDir' = TRUE
    /\ \/ /\ dirExists' = TRUE
          /\ calls' = Append(calls, Call("mkdir", TRUE, FALSE))
          /\ pc' = "list"
          /\ UNCHANGED err
       \/ /\ UNCHANGED dirExists
          /\ calls' = Append(calls, Call("mkdir", FALSE, FALSE))
          /\ BatchThrow(UNTYPED)
    /\ UNCHANGED <<extVars, filePath, job, keyfile, pollingIntervalMs, mainWindow, gcsInit, visionInit,
                   rmFailed, result, jsonFiles, pageCount, dataVars, pollVars>>

\* ListFiles without the check of an empty list of result files
ListFilesNoEmptyCheck ==
    /\ pc = "list"
    /\ \/ \E outputFiles \in Listings :
            /\ jsonFiles' = SelectSeq(outputFiles, EndsWithJson)
            /\ calls' = Append(calls, Call("listFiles", TRUE, TRUE))
            /\ pc' = "download" /\ UNCHANGED err
       \/ /\ calls' = Append(calls, Call("listFiles", FALSE, TRUE))
          /\ BatchThrow(LIST_FILES_FAILED)
          /\ UNCHANGED jsonFiles
    /\ UNCHANGED <<extVars, filePath, job, keyfile, pollingIntervalMs, mainWindow, events, gcsInit,
                   visionInit, tempDir, dirExists, rmFailed, result, pageCount, dataVars,
                   pollVars>>

\* Step 5: await gcsService.listFiles(...), the .json filter, the empty check
ListFiles ==
    /\ pc = "list"
    /\ \/ \E outputFiles \in Listings :
            /\ jsonFiles' = SelectSeq(outputFiles, EndsWithJson)
            /\ calls' = Append(calls, Call("listFiles", TRUE, TRUE))
            /\ IF jsonFiles' = <<>>
               THEN BatchThrow(INVALID_RESPONSE)
               ELSE pc' = "download" /\ UNCHANGED err
       \/ /\ calls' = Append(calls, Call("listFiles", FALSE, TRUE))
          /\ BatchThrow(LIST_FILES_FAILED)
          /\ UNCHANGED jsonFiles
    /\ UNCHANGED <<extVars, filePath, job, keyfile, pollingIntervalMs, mainWindow, events, gcsInit,
                   visionInit, tempDir, dirExists, rmFailed, result, pageCount, dataVars,
                   pollVars>>

\* a download loop that gives up the rest of the listing when a download
\* fails and goes on with the files it has
DownloadFileTolerant ==
    /\ pc = "download"
    /\ Len(localJsonFiles) < Len(jsonFiles)
    /\ LET i         == Len(localJsonFiles)
           localPath == LocalPath(jsonFiles[i + 1])
       IN  \/ \E c \in RunContents(jsonFiles[i + 1]) :
                /\ disk' = [q \in DOMAIN disk \cup {localPath} |->
                                IF q = localPath THEN c ELSE disk[q]]
                /\ localJsonFiles' = Append(localJsonFiles, localPath)
                /\ calls' = Append(calls, Call("downloadFile", TRUE, TRUE))
                /\ events' = Send(events,
                        Progress("download", Pct(80 + ((i * 10) \div Len(jsonFiles)))))
                /\ UNCHANGED <<pc, err, jsonFiles>>
           \/ /\ calls' = Append(calls, Call("downloadFile", FALSE, TRUE))
              /\ jsonFiles' = SubSeq(jsonFiles, 1, i)
              /\ UNCHANGED <<pc, err, disk, localJsonFiles, events>>
    /\ UNCHANGED <<extVars, filePath, job, keyfile, pollingIntervalMs, mainWindow, gcsInit, visionInit,
                   tempDir, dirExists, rmFailed, result, pageCount,
                   sortedFiles, responses, pages, outputPath, fnVars, pollVars>>

\* Step 5: one pass of the download loop: await gcsService.downloadFile(...)
DownloadFile ==
    /\ pc = "download"
    /\ Len(localJsonFiles) < Len(jsonFiles)
    /\ LET i         == Len(localJsonFiles)
           localPath == LocalPath(jsonFiles[i + 1])
       IN  \/ \E c \in RunContents(jsonFiles[i + 1]) :
                /\ disk' = [q \in DOMAIN disk \cup {localPath} |->
                                IF q = localPath THEN c ELSE disk[q]]
                /\ localJsonFiles' = Append(localJsonFiles, localPath)
                /\ calls' = Append(calls, Call("downloadFile", TRUE, TRUE))
                /\ events' = Send(events,
                        Progress("download", Pct(80 + ((i * 10) \div Len(jsonFiles)))))
                /\ UNCHANGED <<pc, err>>
           \/ \E code \in {FILE_NOT_FOUND, DOWNLOAD_FAILED} :
                /\ calls' = Append(calls, Call("downloadFile", FALSE, TRUE))
                /\ BatchThrow(code)
                /\ UNCHANGED <<disk, localJsonFiles, events>>
    /\ UNCHANGED <<extVars, filePath, job, keyfile, pollingIntervalMs, mainWindow, gcsInit, visionInit,
                   tempDir, dirExists, rmFailed, result, jsonFiles, pageCount,
                   sortedFiles, responses, pages, outputPath, fnVars, pollVars>>

\* Step 6: after the loop: sort, await parseVisionOutput, extractText,
\* convertToMarkdown
ParseAndCompose ==
    /\ pc = "download"
    /\ Len(localJsonFiles) = Len(jsonFiles)
    /\ sortedFiles' = sortJsonFilesByPageRange(localJsonFiles)
    /\ responses' = parseVisionOutput(sortedFiles', disk)
    /\ LET evs == Send(Send(events, Progress("download", Pct(90))),
                       Progress("parse", Pct(92)))
           cs  == Append(calls, Call("sort", TRUE, FALSE))
           ex  == extractText(responses'.value, BooleanValue(job.removeRuby))
       IN  IF ~responses'.ok
           THEN /\ events' = evs
                /\ calls' = Append(cs, Call("parse", FALSE, FALSE))
                /\ BatchThrow(responses'.err)
                /\ UNCHANGED pages
           ELSE IF ~ex.ok
           THEN /\ events' = Send(evs, Progress("parse", Pct(95)))
                /\ calls' = cs \o <<Call("parse", TRUE, FALSE),
                                     Call("extract", FALSE, FALSE)>>
                /\ BatchThrow(ex.err)
                /\ UNCHANGED pages
           ELSE /\ events' = Send(Send(evs, Progress("parse", Pct(95))),
                                  Progress("save", Pct(97)))
                /\ calls' = cs \o <<Call("parse", TRUE, FALSE),
                                     Call("extract", TRUE, FALSE),
                                     Call("compose", TRUE, FALSE)>>
                /\ pages' = ex.value
                /\ pc' = "save"
                /\ UNCHANGED err
    /\ UNCHANGED <<extVars, filePath, job, keyfile, pollingIntervalMs, mainWindow, gcsInit, visionInit,
                   tempDir, dirExists, rmFailed, result, jsonFiles, pageCount,
                   localJsonFiles, disk, outputPath, fnVars, pollVars>>

\* Step 7: await parserService.saveMarkdown(...), then sendCompleteEvent
SaveMarkdown ==
    /\ pc = "save"
    /\ outputPath' = join(defaultOutputDir,
                          replaceExtension(basename(filePath), {"pdf", "gif", "tiff", "tif"}))
    /\ \/ /\ calls' = Append(calls, Call("save", TRUE, FALSE))
          /\ pageCount' = countPages(responses.value)
          /\ events' = Send(Send(events, Progress("save", Pct(100))),
                            Complete(pageCount'))
          /\ pc' = "finally"
          /\ UNCHANGED err
       \/ /\ calls' = Append(calls, Call("save", FALSE, FALSE))
          /\ BatchThrow(FILE_WRITE_FAILED)
          /\ UNCHANGED <<events, pageCount>>
    /\ UNCHANGED <<extVars, filePath, job, keyfile, pollingIntervalMs, mainWindow, gcsInit, visionInit,
                   tempDir, dirExists, rmFailed, result, jsonFiles, localJsonFiles, disk,
                   sortedFiles, responses, pages, fnVars, pollVars>>

\* what follows the finally block: the return of the handler or its catch
AfterFinally(e) ==
    IF e = "none"
    THEN /\ result' = "success"
         /\ pc' = "done"
         /\ UNCHANGED <<events, err>>
    ELSE HandlerCatch(events, e)

\* the temporary directory removed only when the run succeeded
FinallyOnSuccessOnly ==
    /\ pc = "finally"
    /\ IF tempDir /\ err = "none"
       THEN \/ /\ dirExists' = FALSE
               /\ calls' = Append(calls, Call("rm", TRUE, FALSE))
               /\ UNCHANGED rmFailed
            \/ /\ rmFailed' = TRUE
               /\ calls' = Append(calls, Call("rm", FALSE, FALSE))
               /\ UNCHANGED dirExists
       ELSE UNCHANGED <<dirExists, rmFailed, calls>>
    /\ AfterFinally(err)
    /\ UNCHANGED <<extVars, filePath, job, keyfile, pollingIntervalMs, mainWindow, gcsInit, visionInit,
                   tempDir, jsonFiles, pageCount, dataVars, pollVars>>

\* a failed removal of the temporary directory thrown on to the handler
\* a failed removal that replaces the error of a failed run
FinallyCleanupErrorWins ==
    /\ pc = "finally"
    /\ IF tempDir
       THEN \/ /\ dirExists' = FALSE
               /\ calls' = Append(calls, Call("rm", TRUE, FALSE))
               /\ UNCHANGED rmFailed
               /\ AfterFinally(err)
            \/ /\ rmFailed' = TRUE
               /\ calls' = Append(calls, Call("rm", FALSE, FALSE))
               /\ UNCHANGED dirExists
               /\ AfterFinally(IF err = "none" THEN "none" ELSE "cleanup")
       ELSE UNCHANGED <<dirExists, rmFailed, calls>> /\ AfterFinally(err)
    /\ UNCHANGED <<extVars, filePath, job, keyfile, pollingIntervalMs, mainWindow, gcsInit, visionInit,
                   tempDir, jsonFiles, pageCount, dataVars, pollVars>>

FinallyEscalates ==
    /\ pc = "finally"
    /\ IF tempDir
       THEN \/ /\ dirExists' = FALSE
               /\ calls' = Append(calls, Call("rm", TRUE, FALSE))
               /\ UNCHANGED rmFailed
               /\ AfterFinally(err)
            \/ /\ rmFailed' = TRUE
               /\ calls' = Append(calls, Call("rm", FALSE, FALSE))
               /\ UNCHANGED dirExists
               /\ HandlerCatch(events, UNTYPED)
       ELSE UNCHANGED <<dirExists, rmFailed, calls>> /\ AfterFinally(err)
    /\ UNCHANGED <<extVars, filePath, job, keyfile, pollingIntervalMs, mainWindow, gcsInit, visionInit,
                   tempDir, jsonFiles, pageCount, dataVars, pollVars>>

\* the finally of runBatchOCRProcess: await fs.rm(tempDir, { recursive: true,
\* force: true }), its failure logged; then the handler returns or catches
Finally ==
    /\ pc = "finally"
    /\ IF tempDir
       THEN \/ /\ dirExists' = FALSE
               /\ calls' = Append(calls, Call("rm", TRUE, FALSE))
               /\ UNCHANGED rmFailed
            \/ /\ rmFailed' = TRUE
               /\ calls' = Append(calls, Call("rm", FALSE, FALSE))
               /\ UNCHANGED dirExists
       ELSE UNCHANGED <<dirExists, rmFailed, calls>>
    /\ AfterFinally(err)
    /\ UNCHANGED <<extVars, filePath, job, keyfile, pollingIntervalMs, mainWindow, gcsInit, visionInit,
                   tempDir, jsonFiles, pageCount, dataVars, pollVars>>

\* sync path, Step 1: await visionService.initialize(config.gcpKeyfilePath)
SyncInitialize ==
    /\ pc = "syncInit"
    /\ LET evs == Send(events, Progress("upload", Pct(0)))
       IN  IF ~keyfile
           THEN /\ visionInit' = FALSE
                /\ calls' = Append(calls, Call("vision.initialize", FALSE, FALSE))
                /\ HandlerCatch(evs, GCP_AUTH_FAILED)
           ELSE \/ /\ visionInit' = TRUE
                   /\ calls' = Append(calls, Call("vision.initialize", TRUE, FALSE))
                   /\ events' = Send(evs, Progress("upload", Pct(20)))
                   /\ pc' = "syncAnnotate"
                   /\ UNCHANGED <<err, result>>
                \/ /\ visionInit' = FALSE
                   /\ calls' = Append(calls, Call("vision.initialize", FALSE, FALSE))
                   /\ HandlerCatch(evs, GCP_AUTH_FAILED)
    /\ UNCHANGED <<extVars, filePath, job, keyfile, pollingIntervalMs, mainWindow, gcsInit, tempDir,
                   dirExists, rmFailed, jsonFiles, pageCount, dataVars, pollVars>>

\* sync path, Step 2 and 3: await visionService.syncAnnotateImage(filePath),
\* convertToMarkdown([text])
SyncAnnotate ==
    /\ pc = "syncAnnotate"
    /\ LET evs == Send(events, Progress("api-request", Pct(30)))
       IN  IF ~visionInit
           THEN /\ calls' = Append(calls, Call("syncAnnotateImage", FALSE, FALSE))
                /\ HandlerCatch(evs, GCP_AUTH_FAILED)
           ELSE \/ /\ calls' = Append(calls, Call("syncAnnotateImage", TRUE, TRUE))
                   /\ events' = Send(Send(Send(evs,
                                    Progress("api-request", Pct(80))),
                                    Progress("parse", Pct(85))),
                                    Progress("save", Pct(95)))
                   /\ pc' = "syncSave"
                   /\ UNCHANGED <<err, result>>
                \/ /\ calls' = Append(calls, Call("syncAnnotateImage", FALSE, TRUE))
                   /\ HandlerCatch(evs, API_REQUEST_FAILED)
    /\ UNCHANGED <<extVars, filePath, job, keyfile, pollingIntervalMs, mainWindow, gcsInit, visionInit,
                   tempDir, dirExists, rmFailed, jsonFiles, pageCount, dataVars, pollVars>>

\* sync path, Step 4: await parserService.saveMarkdown(...), sendCompleteEvent
SyncSave ==
    /\ pc = "syncSave"
    /\ outputPath' = join(defaultOutputDir,
                          replaceExtension(basename(filePath), {"jpg", "jpeg", "png"}))
    /\ \/ /\ calls' = Append(calls, Call("save", TRUE, FALSE))
          /\ pageCount' = 1
          /\ events' = Send(Send(events, Progress("save", Pct(100))), Complete(1))
          /\ result' = "success"
          /\ pc' = "done"
          /\ UNCHANGED err
       \/ /\ calls' = Append(calls, Call("save", FALSE, FALSE))
          /\ HandlerCatch(events, FILE_WRITE_FAILED)
          /\ UNCHANGED pageCount
    /\ UNCHANGED <<extVars, filePath, job, keyfile, pollingIntervalMs, mainWindow, gcsInit, visionInit,
                   tempDir, dirExists, rmFailed, jsonFiles, localJsonFiles, disk,
                   sortedFiles, responses, pages, fnVars, pollVars>>

Next ==
    \/ WindowClosed
    \/ StartOcr
    \/ GcsInitialize \/ VisionInitialize \/ BucketExists \/ UploadFile
    \/ AsyncBatchAnnotate
    \/ PollStart \/ PollIteration \/ PollStatus \/ PollSleep \/ PollEnd
    \/ MkTempDir \/ ListFiles \/ DownloadFile \/ ParseAndCompose \/ SaveMarkdown
    \/ Finally
    \/ SyncInitialize \/ SyncAnnotate \/ SyncSave

Spec == Init /\ [][Next]_vars

---------------------------------------------------------------------------
(* Two invocations of the 'start-ocr' handler that overlap.  Both use the  *)
(* module-level gcsService and visionService; each is followed from its    *)
(* initialize calls to its listFiles call.                                 *)

Runs == {1, 2}

\* config.gcpKeyfilePath of an invocation: empty, the path of a key file
\* the remote service rejects, the path of a valid one
KeyFiles == {"", "bad", "good"}

\* the remote service accepts the requests made with this handle
Accepts(handle) == handle = "good"

\* the locals of an invocation; calls is history: the service operations
\* it invoked, [svc, op, err, remote, lastInit]
Run(key) == [pc |-> "gcsInit", key |-> key, err |-> "none", calls |-> <<>>]

\* the steps after the initialize calls, in order, the service each one
\* calls and the error it throws when the remote service rejects the call
StepsAfterInit ==
    << [pc |-> "bucketExists", svc |-> "gcs", err |-> BUCKET_NOT_FOUND],
       [pc |-> "uploadFile", svc |-> "gcs", err |-> UPLOAD_FAILED],
       [pc |-> "asyncBatchAnnotate", svc |-> "vision", err |-> API_REQUEST_FAILED],
       [pc |-> "listFiles", svc |-> "gcs", err |-> LIST_FILES_FAILED] >>

\* the error reaches the catch of the handler: the invocation is over
RunThrows(r, code, call) ==
    runs' = [runs EXCEPT ![r].pc = "done", ![r].err = code,
                         ![r].calls = runs[r].calls \o call]

RunGoes(r, next, call) ==
    runs' = [runs EXCEPT ![r].pc = next, ![r].calls = runs[r].calls \o call]

\* GCSService.initialize up to its await: the key file check and
\* this.storage = new Storage(...)
GcsInitializeBegin(r) ==
    /\ runs[r].pc = "gcsInit"
    /\ IF runs[r].key = ""
       THEN /\ services' = [services EXCEPT !.gcs.initialized = FALSE,
                                            !.gcs.lastInit = "failed"]
            /\ RunThrows(r, GCP_AUTH_FAILED, <<>>)
       ELSE /\ services' = [services EXCEPT !.gcs.handle = runs[r].key]
            /\ RunGoes(r, "getBuckets", <<>>)
    /\ UNCHANGED <<pc, handlerVars, dataVars, pollVars, visionInit, bucket, tmpdirs,
                   renderer, ipc>>

\* variant: a rejected getBuckets leaves 'initialized' as it was
GcsInitializeEndKeepsFlag(r) ==
    /\ runs[r].pc = "getBuckets"
    /\ IF Accepts(runs[r].key)
       THEN /\ services' = [services EXCEPT !.gcs.initialized = TRUE,
                                            !.gcs.lastInit = "ok"]
            /\ RunGoes(r, "visionInit", <<>>)
       ELSE /\ services' = [services EXCEPT !.gcs.lastInit = "failed"]
            /\ RunThrows(r, GCP_AUTH_FAILED, <<>>)
    /\ UNCHANGED <<pc, handlerVars, dataVars, pollVars, visionInit, bucket, tmpdirs,
                   renderer, ipc>>

\* GCSService.initialize after await getBuckets, which was called on the
\* handle of this invocation: initialized = true, or the catch
GcsInitializeEnd(r) ==
    /\ runs[r].pc = "getBuckets"
    /\ IF Accepts(runs[r].key)
       THEN /\ services' = [services EXCEPT !.gcs.initialized = TRUE,
                                            !.gcs.lastInit = "ok"]
            /\ RunGoes(r, "visionInit", <<>>)
       ELSE /\ services' = [services EXCEPT !.gcs.initialized = FALSE,
                                            !.gcs.lastInit = "failed"]
            /\ RunThrows(r, GCP_AUTH_FAILED, <<>>)
    /\ UNCHANGED <<pc, handlerVars, dataVars, pollVars, visionInit, bucket, tmpdirs,
                   renderer, ipc>>

\* VisionService.initialize: no await in it
VisionInitializeShared(r) ==
    /\ runs[r].pc = "visionInit"
    /\ IF runs[r].key = ""
       THEN /\ services' = [services EXCEPT !.vision.initialized = FALSE,
                                            !.vision.lastInit = "failed"]
            /\ RunThrows(r, GCP_AUTH_FAILED, <<>>)
       ELSE /\ services' = [services EXCEPT !.vision.handle = runs[r].key,
                                            !.vision.initialized = TRUE,
                                            !.vision.lastInit = "ok"]
            /\ RunGoes(r, StepsAfterInit[1].pc, <<>>)
    /\ UNCHANGED <<pc, handlerVars, dataVars, pollVars, visionInit, bucket, tmpdirs,
                   renderer, ipc>>

\* if (!this.initialized || !this.storage), if (!this.initialized || !this.client)
ensureInitialized(service) == service.initialized /\ service.handle # "null"

\* an operation of a service: ensureInitialized, then the request to the
\* remote service with the handle the service holds
ServiceCall(r) ==
    /\ \E i \in 1..Len(StepsAfterInit) :
        LET step    == StepsAfterInit[i]
            service == services[step.svc]
            next    == IF i < Len(StepsAfterInit) THEN StepsAfterInit[i + 1].pc ELSE "done"
            call(code, remote) ==
                <<[svc |-> step.svc, op |-> step.pc, err |-> code, remote |-> remote,
                   lastInit |-> service.lastInit]>>
        IN  /\ runs[r].pc = step.pc
            /\ IF ~ensureInitialized(service)
               THEN RunThrows(r, GCP_AUTH_FAILED, call(GCP_AUTH_FAILED, FALSE))
               ELSE IF Accepts(service.handle)
               THEN RunGoes(r, next, call("none", TRUE))
               ELSE RunThrows(r, step.err, call(step.err, TRUE))
    /\ UNCHANGED <<pc, handlerVars, dataVars, pollVars, visionInit, services, bucket,
                   tmpdirs, renderer, ipc>>

InitOverlap ==
    /\ pc = "overlap"
    /\ visionInit = FALSE
    /\ IdleHandler /\ IdleData /\ IdlePoll
    /\ services = NoServices
    /\ runs \in [Runs -> {Run(key) : key \in KeyFiles}]
    /\ bucket = {}
    /\ tmpdirs = <<>>
    /\ renderer = IdleHook
    /\ ipc = <<>>

NextOverlap ==
    \E r \in Runs :
        \/ GcsInitializeBegin(r)
        \/ GcsInitializeEnd(r)
        \/ VisionInitializeShared(r)
        \/ ServiceCall(r)

SpecOverlap == InitOverlap /\ [][NextOverlap]_vars

---------------------------------------------------------------------------
(* Two batch runs and the names they give their objects and directories.   *)
(* Each name is made of Date.now() read when the run gets there; the       *)
(* clock may show the same millisecond to both.                            *)

\* the latest millisecond of the clock
MaxClock == 2

\* basename(filePath) of a run and the result file the OCR service writes
\* for it, named after its page range
FileNames == {"a.pdf", "b.pdf"}
ResultName(fileName) ==
    IF fileName = "a.pdf" THEN "output-1-to-1.json" ELSE "output-1-to-2.json"

\* the locals of a run; removed is history: the local files its fs.rm
\* has removed
PathRun(fileName) ==
    [pc |-> "upload", fileName |-> fileName, err |-> "none",
     gcsInputPath |-> <<>>, gcsOutputPrefix |-> <<>>, tempDir |-> <<>>,
     outputFiles |-> {}, removed |-> {}]

pollLocals == <<pollState, pollTimeout, pollInterval, pollStart, pollCount,
                pollElapsed, pollErr, iterElapsed, statuses, progressCalls, sleeps>>

\* the values a Date.now() may return: the millisecond shown, or the next
Readings == {t \in {now, now + 1} : t <= MaxClock}

\* an object written to the bucket replaces the one of the same name
Written(objects, o) ==
    {x \in objects : ~(x.path = o.path /\ x.name = o.name)} \cup {o}

\* gcsInputPath, gcsOutputPrefix and await gcsService.uploadFile
ChoosePathsAndUpload(r) ==
    /\ runs[r].pc = "upload"
    /\ \E t1 \in Readings :
       \E t2 \in {t \in {t1, t1 + 1} : t <= MaxClock} :
            /\ now' = t2
            /\ runs' = [runs EXCEPT ![r].pc = "annotate",
                                    ![r].gcsInputPath = <<"input", t1, runs[r].fileName>>,
                                    ![r].gcsOutputPrefix = <<"output", t2>>]
            /\ bucket' = Written(bucket, [path |-> <<"input", t1>>,
                                          name |-> runs[r].fileName, owner |-> r])
    /\ UNCHANGED <<pc, handlerVars, dataVars, pollLocals, visionInit, services, tmpdirs,
                   renderer, ipc>>

\* asyncBatchAnnotate and pollOperation: the OCR service writes the result
\* file of the run under its output prefix
Annotate(r) ==
    /\ runs[r].pc = "annotate"
    /\ bucket' = Written(bucket, [path |-> runs[r].gcsOutputPrefix,
                                  name |-> ResultName(runs[r].fileName), owner |-> r])
    /\ runs' = [runs EXCEPT ![r].pc = "mkdir"]
    /\ UNCHANGED <<pc, handlerVars, dataVars, pollVars, visionInit, services, tmpdirs,
                   renderer, ipc>>

\* tempDir = join(tmpdir(), `ocr-${Date.now()}`); fs.mkdir(tempDir,
\* {recursive: true}) accepts a directory that exists
MkTempDirNamed(r) ==
    /\ runs[r].pc = "mkdir"
    /\ \E t \in Readings :
            /\ now' = t
            /\ runs' = [runs EXCEPT ![r].pc = "list", ![r].tempDir = <<"ocr", t>>]
            /\ tmpdirs' = IF <<"ocr", t>> \in DOMAIN tmpdirs THEN tmpdirs
                          ELSE tmpdirs @@ (<<"ocr", t>> :> {})
    /\ UNCHANGED <<pc, handlerVars, dataVars, pollLocals, visionInit, services, bucket,
                   renderer, ipc>>

\* listFiles(bucket, gcsOutputPrefix) and the '.json' filter
ListOutputFiles(r) ==
    /\ runs[r].pc = "list"
    /\ runs' = [runs EXCEPT ![r].pc = "download",
                            ![r].outputFiles =
                                {o \in bucket : o.path = runs[r].gcsOutputPrefix}]
    /\ UNCHANGED <<pc, handlerVars, dataVars, pollVars, visionInit, services, bucket,
                   tmpdirs, renderer, ipc>>

\* the download loop: each file to join(tempDir, basename(jsonFile)); the
\* write fails when the directory is gone
DownloadOutputFiles(r) ==
    /\ runs[r].pc = "download"
    /\ IF runs[r].tempDir \in DOMAIN tmpdirs
       THEN /\ tmpdirs' =
                [tmpdirs EXCEPT ![runs[r].tempDir] =
                    {f \in @ : \A o \in runs[r].outputFiles : f.name # o.name}
                    \cup {[name |-> o.name, by |-> r] : o \in runs[r].outputFiles}]
            /\ runs' = [runs EXCEPT ![r].pc = "finally"]
       ELSE /\ runs' = [runs EXCEPT ![r].pc = "finally", ![r].err = DOWNLOAD_FAILED]
            /\ UNCHANGED tmpdirs
    /\ UNCHANGED <<pc, handlerVars, dataVars, pollVars, visionInit, services, bucket,
                   renderer, ipc>>

\* finally: fs.rm(tempDir, {recursive: true, force: true})
RemoveTempDir(r) ==
    /\ runs[r].pc = "finally"
    /\ tmpdirs' = [d \in DOMAIN tmpdirs \ {runs[r].tempDir} |-> tmpdirs[d]]
    /\ runs' = [runs EXCEPT ![r].pc = "done",
                            ![r].removed = IF runs[r].tempDir \in DOMAIN tmpdirs
                                           THEN tmpdirs[runs[r].tempDir] ELSE {}]
    /\ UNCHANGED <<pc, handlerVars, dataVars, pollVars, visionInit, services, bucket,
                   renderer, ipc>>

\* the clock goes on
Tick ==
    /\ now < MaxClock
    /\ now' = now + 1
    /\ UNCHANGED <<pc, handlerVars, dataVars, pollLocals, visionInit, extVars>>

InitPaths ==
    /\ pc = "paths"
    /\ visionInit = FALSE
    /\ IdleHandler /\ IdleData /\ IdlePoll
    /\ services = NoServices
    /\ runs \in [Runs -> {PathRun(name) : name \in FileNames}]
    /\ bucket = {}
    /\ tmpdirs = <<>>
    /\ renderer = IdleHook
    /\ ipc = <<>>

NextPaths ==
    \/ Tick
    \/ \E r \in Runs :
        \/ ChoosePathsAndUpload(r)
        \/ Annotate(r)
        \/ MkTempDirNamed(r)
        \/ ListOutputFiles(r)
        \/ DownloadOutputFiles(r)
        \/ RemoveTempDir(r)

SpecPaths == InitPaths /\ [][NextPaths]_vars

---------------------------------------------------------------------------
(* The renderer: useOCRProcess, its startOCR and its handlers of the       *)
(* notifications, with a main process that runs one job.  What the main    *)
(* process sends reaches the renderer in the order it was sent.            *)

\* the steps of a job in order; the status the progress handler sets
StepSequence == <<"upload", "api-request", "polling", "download", "parse", "save">>
StatusOf(step) ==
    CASE step = "upload" -> "uploading"
      [] step \in {"api-request", "polling"} -> "processing"
      [] step = "download" -> "downloading"
      [] step \in {"parse", "save"} -> "parsing"

\* the errors a job may end with; the message of the error notification is
\* that of the error
JobErrors == {GCP_AUTH_FAILED, UPLOAD_FAILED, OPERATION_TIMEOUT, UNTYPED}

\* new Error('OCR処理の開始に失敗しました')
START_FAILED == "start failed"

\* the value the handler returns: { success }
Reply(success) == [kind |-> "reply", success |-> success]

\* startOCR: the state is reset and 'start-ocr' invoked
HookStartOCR ==
    /\ pc = "idle"
    /\ renderer' = [status |-> "uploading", error |-> "null"]
    /\ pc' = "running"
    /\ UNCHANGED <<handlerVars, dataVars, pollVars, visionInit, services, runs, bucket,
                   tmpdirs, ipc>>

\* the job sends the progress notification of its next step
MainProgress ==
    /\ pc = "running"
    /\ Len(events) < Len(StepSequence)
    /\ LET e == Progress(StepSequence[Len(events) + 1], Pct(0))
       IN  events' = Append(events, e) /\ ipc' = Append(ipc, e)
    /\ UNCHANGED <<pc, filePath, job, keyfile, pollingIntervalMs, mainWindow, calls,
                   gcsInit, tempDir, dirExists, rmFailed, err, result, jsonFiles,
                   pageCount, dataVars, pollVars, visionInit, services, runs, bucket,
                   tmpdirs, renderer>>

\* the catch of the handler: sendErrorEvent('ocr', error), then
\* return { success: false }
MainFails ==
    /\ pc = "running"
    /\ \E code \in JobErrors :
            /\ err' = code
            /\ events' = Append(events, Error("ocr", code))
            /\ ipc' = ipc \o <<Error("ocr", code), Reply(FALSE)>>
    /\ result' = "failure"
    /\ pc' = "returned"
    /\ UNCHANGED <<filePath, job, keyfile, pollingIntervalMs, mainWindow, calls,
                   gcsInit, tempDir, dirExists, rmFailed, jsonFiles,
                   pageCount, dataVars, pollVars, visionInit, services, runs, bucket,
                   tmpdirs, renderer>>

\* the job ends: sendCompleteEvent, then return { success: true }
MainCompletes ==
    /\ pc = "running"
    /\ Len(events) = Len(StepSequence)
    /\ events' = Append(events, Complete(1))
    /\ ipc' = ipc \o <<Complete(1), Reply(TRUE)>>
    /\ result' = "success"
    /\ pc' = "returned"
    /\ UNCHANGED <<filePath, job, keyfile, pollingIntervalMs, mainWindow, calls,
                   gcsInit, tempDir, dirExists, rmFailed, err, jsonFiles,
                   pageCount, dataVars, pollVars, visionInit, services, runs, bucket,
                   tmpdirs, renderer>>

\* the renderer after the next message: the onProgress, onError and
\* onComplete handlers, and startOCR after its await
Handled(hook, m) ==
    CASE m.kind = "progress" -> [hook EXCEPT !.status = StatusOf(m.step)]
      [] m.kind = "error"    -> [status |-> "error", error |-> m.code]
      [] m.kind = "complete" -> [hook EXCEPT !.status = "complete"]
      [] m.kind = "reply"    -> IF m.success THEN hook
                                ELSE [status |-> "error", error |-> START_FAILED]

HookHandles ==
    /\ ipc # <<>>
    /\ renderer' = Handled(renderer, Head(ipc))
    /\ ipc' = Tail(ipc)
    /\ UNCHANGED <<pc, handlerVars, dataVars, pollVars, visionInit, services, runs,
                   bucket, tmpdirs>>

InitRenderer ==
    /\ pc = "idle"
    /\ visionInit = FALSE
    /\ IdleRun /\ IdleData /\ IdlePoll

NextRenderer ==
    \/ HookStartOCR
    \/ MainProgress
    \/ MainFails
    \/ MainCompletes
    \/ HookHandles

SpecRenderer == InitRenderer /\ [][NextRenderer]_vars

---------------------------------------------------------------------------
(* Claims about the 'start-ocr' handler (Spec) *)

TerminalIdx == {i \in 1..Len(events) : events[i].kind \in {"complete", "error"}}

OpsDone == {calls[i].op : i \in 1..Len(calls)}

CountOp(op) == Cardinality({i \in 1..Len(calls) : calls[i].op = op})

\* extensions as written that the batch path and the sync path accept
BatchExts == {"pdf", "PDF", "gif", "tiff", "tif"}
SyncExts  == {"jpg", "JPEG", "png"}

StorageOps == {"gcs.initialize", "bucketExists", "uploadFile", "listFiles", "downloadFile"}

\* C1: with the main window present, an invocation of the handler emits at
\* most one terminal notification, nothing after it, and exactly one by the
\* time the handler has returned: a completion when it returns success, an
\* error when it returns failure.
C1_OneTerminalEvent ==
    mainWindow =>
        /\ Cardinality(TerminalIdx) <= 1
        /\ \A i \in TerminalIdx : i = Len(events)
        /\ pc = "done" =>
                /\ Cardinality(TerminalIdx) = 1
                /\ result = "success" <=> events[Len(events)].kind = "complete"
                /\ result = "failure" <=> events[Len(events)].kind = "error"

\* a batch run that failed after polling and downloading, window present
C1_Witness ==
    /\ pc = "done" /\ mainWindow
    /\ result = "failure" /\ err = JSON_PARSE_FAILED
    /\ events[Len(events)].kind = "error"
    /\ Cardinality({i \in 1..Len(events) : events[i].step = "polling"}) >= 4

StepRank(op) ==
    CASE op = "access" -> 0
      [] op = "gcs.initialize" -> 1
      [] op = "vision.initialize" -> 2
      [] op = "bucketExists" -> 3
      [] op = "uploadFile" -> 4
      [] op = "asyncBatchAnnotate" -> 5
      [] op = "pollOperation" -> 6
      [] op = "mkdir" -> 7
      [] op = "listFiles" -> 8
      [] op = "downloadFile" -> 9
      [] op = "sort" -> 10
      [] op = "parse" -> 11
      [] op = "extract" -> 12
      [] op = "compose" -> 13
      [] op = "save" -> 14
      [] OTHER -> 15

PhaseRank(step) ==
    CASE step = "upload" -> 1
      [] step = "api-request" -> 2
      [] step = "polling" -> 3
      [] step = "download" -> 4
      [] step = "parse" -> 5
      [] step = "save" -> 6
      [] OTHER -> 7

\* C2: in a batch run every step but the cleanup follows a step that
\* succeeded and is the next one in the order initialize (storage, OCR),
\* bucket check, upload, submit, poll, (temporary directory), list,
\* download (once per result file), sort, parse, extract, compose, save;
\* the poll loop runs only between the submit and the list step; sorting
\* starts when every result file is downloaded; and the phases of the
\* progress notifications never go backwards.
C2_StepOrder ==
    filePath.ext \in BatchExts =>
        /\ \A i \in 1..(Len(calls) - 1) :
                \/ calls[i + 1].op = "rm"
                \/ /\ calls[i].ok
                   /\ \/ StepRank(calls[i + 1].op) = StepRank(calls[i].op) + 1
                      \/ calls[i].op = "downloadFile" /\ calls[i + 1].op = "downloadFile"
        /\ pollState # "idle" =>
                /\ pc = "poll"
                /\ calls[Len(calls)].op = "asyncBatchAnnotate"
                /\ calls[Len(calls)].ok
        /\ "sort" \in OpsDone =>
                /\ CountOp("downloadFile") = Len(jsonFiles)
                /\ \A i \in 1..Len(calls) : calls[i].op = "downloadFile" => calls[i].ok
        /\ LET sent == SelectSeq(events, LAMBDA e : e.kind = "progress")
           IN  \A i \in 1..(Len(sent) - 1) :
                    PhaseRank(sent[i].step) <= PhaseRank(sent[i + 1].step)

\* a batch run that completed after two status queries and two downloads
C2_Witness ==
    /\ pc = "done" /\ mainWindow /\ result = "success"
    /\ filePath.ext = "PDF"
    /\ CountOp("downloadFile") = 2
    /\ Cardinality({i \in 1..Len(events) : events[i].step = "polling"}) >= 4
    /\ events[Len(events)].kind = "complete"

\* C4: a batch run that created its temporary directory has attempted to
\* remove it by the time the handler returns, whatever step ended the run,
\* and the directory is gone unless the removal itself failed.
C4_TempDirRemoved ==
    (pc = "done" /\ \E i \in 1..Len(calls) : calls[i].op = "mkdir" /\ calls[i].ok) =>
        /\ "rm" \in OpsDone
        /\ ~rmFailed => ~dirExists

\* a run that failed in the download step and removed its directory
C4_Witness ==
    /\ pc = "done" /\ err = DOWNLOAD_FAILED
    /\ tempDir /\ ~dirExists /\ ~rmFailed
    /\ CountOp("downloadFile") = 2
    /\ "rm" \in OpsDone

\* C6 (as claimed): a run on a file whose extension is outside the accepted
\* set makes no remote call and does not succeed.
C6_UnsupportedFormatRejected ==
    filePath.ext \notin (BatchExts \cup SyncExts) =>
        /\ \A i \in 1..Len(calls) : ~calls[i].remote
        /\ result # "success"

C8_BucketNotFound ==
    (\E i \in 1..Len(calls) :
        calls[i].op = "bucketExists" /\ calls[i].remote /\ ~calls[i].ok) =>
        /\ pc \in {"finally", "done"}
        /\ err = BUCKET_NOT_FOUND
        /\ OpsDone \cap {"uploadFile", "asyncBatchAnnotate", "pollOperation",
                          "listFiles", "downloadFile"} = {}
        /\ pollState = "idle" /\ statuses = <<>>
        /\ pc = "done" =>
                /\ result = "failure"
                /\ mainWindow => events[Len(events)] = Error("ocr", BUCKET_NOT_FOUND)

\* a run that ended on a missing bucket
C8_Witness ==
    /\ pc = "done" /\ mainWindow
    /\ err = BUCKET_NOT_FOUND
    /\ calls[Len(calls)] = Call("bucketExists", FALSE, TRUE)

\* elements of 'responses' over the downloaded result files
RECURSIVE RecognizedPages(_)
RecognizedPages(files) ==
    IF Len(files) = 0 THEN 0
    ELSE RecognizedPages(SubSeq(files, 1, Len(files) - 1)) + Len(disk[files[Len(files)]].items)

Extracted == \E i \in 1..Len(calls) : calls[i].op = "extract" /\ calls[i].ok

\* C11: once a batch run has extracted the page texts, their number is the
\* number of recognized pages (elements of 'responses') over all downloaded
\* result files, and a run that completes reports that number.
C11_OneTextPerPage ==
    Extracted =>
        /\ Len(pages) = RecognizedPages(localJsonFiles)
        /\ result = "success" => pageCount = Len(pages)

\* a completed run over two result files with three pages, one without text
C11_Witness ==
    /\ pc = "done" /\ result = "success"
    /\ Len(localJsonFiles) = 2
    /\ Len(pages) = 3
    /\ \E k \in 1..3 : pages[k] = <<>>

\* the conventional result-file names of a listing, by ascending start page
NamesAscending == <<OutputName(<<"1">>), OutputName(<<"2">>), OutputName(<<"1", "0">>)>>

\* the texts of the pages of one listed file, in the order of the file
PagesOfFile(name) ==
    IF \E i \in 1..Len(jsonFiles) : jsonFiles[i] = name
    THEN LET c == disk[LocalPath(name)]
         IN  [k \in 1..Len(c.items) |->
                IF c.items[k].kind = "text" THEN c.items[k].text ELSE <<>>]
    ELSE <<>>

\* C12: whatever the order of the listing, the page texts handed to the
\* composer are those of the file with the smallest start page, then those
\* of the next one, and so on, each file's pages in the order of the file.
C12_PagesAscending ==
    Extracted =>
        pages = PagesOfFile(NamesAscending[1]) \o PagesOfFile(NamesAscending[2])
                    \o PagesOfFile(NamesAscending[3])

\* a run whose listing returned pages 10.. before pages 2.., the latter
\* with two pages
C12_Witness ==
    /\ Extracted
    /\ jsonFiles = <<OutputName(<<"1", "0">>), OutputName(<<"2">>)>>
    /\ pages = <<RunText(OutputName(<<"2">>)), <<>>, OutputName(<<"1", "0">>) \o <<"p1">>>>

---------------------------------------------------------------------------
(* Claims about convertToMarkdown (SpecMarkdown) *)

\* the text between the first and the last character that is no whitespace
Trimmed(t) ==
    LET ink == {i \in 1..Len(t) : t[i] \notin {" ", "\n"}}
    IN  IF ink = {} THEN <<>>
        ELSE SubSeq(t, CHOOSE i \in ink : \A j \in ink : i <= j,
                       CHOOSE i \in ink : \A j \in ink : i >= j)

\* header, blank line, text or placeholder, blank line of page k
PageBlock(k) ==
    <<"# Page ", DecimalDigits[k + 1], "\n", "\n">>
        \o (IF Trimmed(arg[k]) = <<>> THEN <<"_(no text)_">> ELSE Trimmed(arg[k]))
        \o <<"\n">>

\* the blocks of pages 1..k, a separator line and a blank line between two
RECURSIVE Blocks(_)
Blocks(k) ==
    IF k = 0 THEN <<>>
    ELSE IF k = 1 THEN PageBlock(1)
    ELSE Blocks(k - 1) \o <<"\n", "---", "\n", "\n">> \o PageBlock(k)

CountToken(str, tok) == Cardinality({i \in 1..Len(str) : str[i] = tok})

\* C13: for n >= 1 page texts the Markdown is the n page blocks in order,
\* page k being the header '# Page k', the trimmed text (the placeholder
\* when that is empty) and, between two pages only, a '---' separator:
\* n headers, n - 1 separators, a placeholder for exactly the empty pages.
C13_MarkdownLayout ==
    (pc = "composed" /\ Len(arg) >= 1) =>
        /\ ret = Blocks(Len(arg))
        /\ CountToken(ret, "# Page ") = Len(arg)
        /\ CountToken(ret, "---") = Len(arg) - 1
        /\ CountToken(ret, "_(no text)_")
                = Cardinality({k \in 1..Len(arg) : Trimmed(arg[k]) = <<>>})

\* three pages, the second blank, the third with whitespace around its text
C13_Witness ==
    /\ pc = "composed"
    /\ arg = << <<"A">>, <<" ">>, <<" ", "A", "\n">> >>
    /\ CountToken(ret, "---") = 2
    /\ ret[Len(ret) - 1] = "A"

---------------------------------------------------------------------------
(* Claims about calculateMedian (SpecMedian) *)

\* the ascending arrangements of the values of arg
Ascending ==
    {[i \in 1..Len(arg) |-> arg[f[i]]] : f \in
        {g \in [1..Len(arg) -> 1..Len(arg)] :
            /\ \A i, j \in 1..Len(arg) : i # j => g[i] # g[j]
            /\ \A i, j \in 1..Len(arg) : i < j => arg[g[i]] <= arg[g[j]]}}

\* C15: calculateMedian returns 0 for an empty array, the middle element of
\* the ascending arrangement of the values for an odd length and the mean of
\* its two middle elements for an even length, whatever the order the
\* values come in, and the array it was given is the same after the call.
C15_Median ==
    pc = "medianDone" =>
        /\ ret.values = arg
        /\ Len(arg) = 0 => ret.value = 0
        /\ \A srt \in Ascending :
                /\ Len(arg) % 2 = 1 => ret.value = srt[(Len(arg) + 1) \div 2]
                /\ (Len(arg) > 0 /\ Len(arg) % 2 = 0) =>
                        2 * ret.value = srt[Len(arg) \div 2] + srt[(Len(arg) \div 2) + 1]

\* four values in descending order, two different ones in the middle
C15_Witness ==
    /\ pc = "medianDone"
    /\ arg = <<Px(10), Px(5), Px(4), Px(1)>>
    /\ 2 * ret.value = Px(9)

---------------------------------------------------------------------------
(* Claims about ruby removal (SpecRuby) *)

\* heights of the symbols, in pixels; 0 without four vertices
HeightOf(text) ==
    CASE text = "A" -> 10 [] text = "r" -> 4 [] text = "s" -> 6 [] text = "t" -> 5
      [] OTHER -> 0

\* the positive heights of the symbols of a block
PositiveHeights(block) ==
    {<<p, k>> \in UNION {{<<q, j>> : j \in 1..Len(block[q])} : q \in 1..Len(block)} :
        HeightOf(block[p][k].text) > 0}

\* the k-th smallest positive height of a block
KthHeight(block, k) ==
    LET at(pk) == HeightOf(block[pk[1]][pk[2]].text)
        hs == PositiveHeights(block)
    IN  CHOOSE h \in {at(pk) : pk \in hs} :
            /\ Cardinality({pk \in hs : at(pk) < h}) < k
            /\ k <= Cardinality({pk \in hs : at(pk) <= h})

\* twice the median of the positive heights of a block
TwiceMedian(block) ==
    LET n == Cardinality(PositiveHeights(block))
    IN  IF n = 0 THEN 0
        ELSE IF n % 2 = 1 THEN 2 * KthHeight(block, (n + 1) \div 2)
        ELSE KthHeight(block, n \div 2) + KthHeight(block, (n \div 2) + 1)

\* strictly positive and strictly below 0.6 times the median
Dropped(block, text) ==
    HeightOf(text) > 0 /\ 20 * HeightOf(text) < 6 * TwiceMedian(block)

\* the texts of the symbols of a paragraph that are not dropped
KeptText(block, par) ==
    LET keep(sym) == ~Dropped(block, sym.text)
    IN  [k \in 1..Len(SelectSeq(par, keep)) |-> SelectSeq(par, keep)[k].text]

\* the non-empty paragraphs of the blocks, in order
KeptParagraphs ==
    LET ofBlock(b) == SelectSeq([p \in 1..Len(arg[b]) |-> KeptText(arg[b], arg[b][p])],
                                LAMBDA t : t # <<>>)
    IN  IF Len(arg) = 1 THEN ofBlock(1) ELSE ofBlock(1) \o ofBlock(2)

\* C14: with ruby removal on, the text of a page is that of the symbols
\* that are not dropped, a symbol of a block being dropped exactly when its
\* height is strictly positive and strictly below 0.6 times the median of
\* the positive heights of that block: a symbol without four vertices
\* (height 0) and a symbol at the threshold are kept.
C14_RubyDropped ==
    pc = "rubyDone" =>
        /\ Len(KeptParagraphs) = 0 => ret = <<>>
        /\ Len(KeptParagraphs) = 1 => ret = KeptParagraphs[1]
        /\ Len(KeptParagraphs) = 2 =>
                ret = KeptParagraphs[1] \o <<"\n">> \o KeptParagraphs[2]
        /\ Len(KeptParagraphs) = 3 =>
                ret = KeptParagraphs[1] \o <<"\n">> \o KeptParagraphs[2]
                        \o <<"\n">> \o KeptParagraphs[3]

\* heights 10, 10, 10, 4: the symbol of height 4 is dropped
C14_Witness ==
    /\ pc = "rubyDone"
    /\ Len(arg) = 1 /\ Len(arg[1]) = 1
    /\ [k \in 1..Len(arg[1][1]) |-> arg[1][1][k].text] = <<"A", "A", "A", "r">>
    /\ ret = <<"A", "A", "A">>

\* the texts of the symbols with a positive height
MeasuredTexts == {"A", "r", "s", "t"}

\* the symbols of the greatest positive height of a block whose text is x
TallestOf(block, x) ==
    {pk \in PositiveHeights(block) :
        /\ block[pk[1]][pk[2]].text = x
        /\ \A qj \in PositiveHeights(block) :
                HeightOf(block[qj[1]][qj[2]].text) <= HeightOf(x)}

\* f summed over the blocks of the page
OverBlocks(f(_)) == IF Len(arg) = 1 THEN f(arg[1]) ELSE f(arg[1]) + f(arg[2])

\* the symbols of positive height that are in the returned text
KeptMeasured ==
    CountToken(ret, "A") + CountToken(ret, "r") + CountToken(ret, "s") + CountToken(ret, "t")

\* C40: with ruby removal on, at least half of the symbols of positive
\* height of every block are in the returned text, and so is every symbol
\* of the greatest height of its block.
C40_RubyKeepsHalf ==
    pc = "rubyDone" =>
        LET half(block)  == (Cardinality(PositiveHeights(block)) + 1) \div 2
        IN  /\ KeptMeasured >= OverBlocks(half)
            /\ \A x \in MeasuredTexts :
                    LET tallest(block) == Cardinality(TallestOf(block, x))
                    IN  CountToken(ret, x) >= OverBlocks(tallest)

\* heights 4, 10, 4, 10: the two symbols of height 4 are dropped, exactly
\* half of the block is kept
C40_Witness ==
    /\ pc = "rubyDone"
    /\ arg = << << <<Glyph("r", Box(1, 5), "none"), Glyph("A", Box(0, 10), "none"),
                     Glyph("r", Box(1, 5), "none"), Glyph("A", Box(0, 10), "none")>> >> >>
    /\ ret = <<"A", "A">>

---------------------------------------------------------------------------
(* Claims about detected breaks (SpecBreaks) *)

\* the character a detected break stands for
BreakChar(brk) ==
    IF brk \in {"SPACE", "SURE_SPACE"} THEN <<" ">>
    ELSE IF brk \in {"LINE_BREAK", "EOL_SURE_SPACE"} THEN <<"\n">>
    ELSE <<>>

\* the symbols of paragraph p that are not dropped as ruby
KeptSymbols(p) ==
    SelectSeq(arg.block[p],
              LAMBDA sym : ~(arg.options.removeRuby /\ Dropped(arg.block, sym.text)))

\* each symbol followed by the character of its break
RECURSIVE WithBreaks(_)
WithBreaks(syms) ==
    IF Len(syms) = 0 THEN <<>>
    ELSE WithBreaks(SubSeq(syms, 1, Len(syms) - 1))
            \o <<syms[Len(syms)].text>> \o BreakChar(syms[Len(syms)].brk)

\* the same without the break of the last symbol
UpToLastGlyph(syms) ==
    IF Len(syms) = 0 THEN <<>>
    ELSE WithBreaks(SubSeq(syms, 1, Len(syms) - 1)) \o <<syms[Len(syms)].text>>

\* the page text made of the paragraphs written by f, those with no kept
\* symbol left out, one per line
TextOfParagraphs(f(_)) ==
    LET texts == SelectSeq([p \in 1..Len(arg.block) |-> f(KeptSymbols(p))],
                           LAMBDA t : t # <<>>)
    IN  IF Len(texts) = 0 THEN <<>>
        ELSE IF Len(texts) = 1 THEN texts[1]
        ELSE texts[1] \o <<"\n">> \o texts[2]

\* C30 (as claimed): in non-normalizing detailed mode every kept symbol is
\* followed in the text by a space for a SPACE or SURE_SPACE break and by a
\* newline for a LINE_BREAK or EOL_SURE_SPACE break, and a dropped symbol
\* contributes nothing.
C30_BreakAfterEveryGlyph ==
    (pc = "breaksDone" /\ ~arg.options.normalizeLineBreaks) =>
        ret = TextOfParagraphs(WithBreaks)

\* C30 (amended): the same for every kept symbol but the last kept one of
\* its paragraph, whose break is trimmed away with the paragraph; a dropped
\* symbol contributes neither its character nor its break.
C30_BreakAfterGlyph ==
    (pc = "breaksDone" /\ ~arg.options.normalizeLineBreaks) =>
        ret = TextOfParagraphs(UpToLastGlyph)

\* a kept symbol with a space break, a dropped symbol with a line break and
\* a paragraph that ends on a line break
C30_Witness ==
    /\ pc = "breaksDone"
    /\ arg.options = RubyOn
    /\ arg.block = << <<Glyph("A", Box(0, 10), "SPACE"), Glyph("r", Box(1, 5), "LINE_BREAK"),
                        Glyph("A", Box(0, 10), "LINE_BREAK")>>,
                      LastParagraph >>
    /\ ret = <<"A", " ", "A", "\n", "A", "A">>

\* each symbol followed by a space when its break is a space break
RECURSIVE WithSpaces(_)
WithSpaces(syms) ==
    IF Len(syms) = 0 THEN <<>>
    ELSE WithSpaces(SubSeq(syms, 1, Len(syms) - 1)) \o <<syms[Len(syms)].text>>
            \o (IF syms[Len(syms)].brk \in SpaceBreaks THEN <<" ">> ELSE <<>>)

\* the same without the space of the last symbol
NormalizedParagraph(syms) ==
    IF Len(syms) = 0 THEN <<>>
    ELSE WithSpaces(SubSeq(syms, 1, Len(syms) - 1)) \o <<syms[Len(syms)].text>>

\* the paragraphs that keep at least one symbol
NonEmptyParagraphs == {p \in 1..Len(arg.block) : Len(KeptSymbols(p)) > 0}

\* the texts written by f for the paragraphs that keep a symbol
RemainingTexts(f(_)) ==
    SelectSeq([p \in 1..Len(arg.block) |-> f(KeptSymbols(p))], LAMBDA t : t # <<>>)

RECURSIVE TotalLen(_)
TotalLen(texts) ==
    IF Len(texts) = 0 THEN 0
    ELSE TotalLen(SubSeq(texts, 1, Len(texts) - 1)) + Len(texts[Len(texts)])

---------------------------------------------------------------------------
(* Claims about extractText (SpecExtract) *)

\* the elements of the 'responses' arrays of the parsed files, in order
RECURSIVE AllItems(_)
AllItems(rs) ==
    IF Len(rs) = 0 THEN <<>>
    ELSE AllItems(SubSeq(rs, 1, Len(rs) - 1)) \o rs[Len(rs)].items

NoNullItem == \A j \in 1..Len(AllItems(arg.rs)) : AllItems(arg.rs)[j].kind # "null"

\* fullTextAnnotation.text of an element, empty when either is missing
FullText(item) == IF item.kind = "text" THEN item.text ELSE <<>>

C39_PageCountIsTextCount ==
    (pc = "extractDone" /\ ret.ok) => countPages(arg.rs) = Len(ret.value)

\* two files of three elements in all, one of them without
\* fullTextAnnotation, extracted with normalizing on
C39_Witness ==
    /\ pc = "extractDone"
    /\ arg.options = ObjectValue([removeRuby |-> FALSE, normalizeLineBreaks |-> TRUE])
    /\ Len(arg.rs) = 2
    /\ Len(arg.rs[1].items) = 2
    /\ arg.rs[1].items[2] = NoAnnotation
    /\ ret.ok
    /\ countPages(arg.rs) = 3
    /\ Len(ret.value) = 3

---------------------------------------------------------------------------
(* Claims about splitSpreadPdf (SpecSplit) *)

\* source pages wider than high
SpreadPages == {i \in 1..Len(arg.sizes) : arg.sizes[i].width > arg.sizes[i].height}

OutputsOf(i) == {k \in 1..Len(ret) : ret[k].source = i}

\* C16: the output has originalPages + spreadPageCount pages: two for every
\* source page whose width is strictly greater than its height, one for
\* every other page (a square page included), and the output pages follow
\* the order of their source pages.
C16_SplitPageCount ==
    pc = "splitDone" =>
        /\ Len(ret) = Len(arg.sizes) + Cardinality(SpreadPages)
        /\ \A i \in 1..Len(arg.sizes) :
                Cardinality(OutputsOf(i)) = IF i \in SpreadPages THEN 2 ELSE 1
        /\ \A k \in 1..Len(ret) : ret[k].source \in 1..Len(arg.sizes)
        /\ \A j, k \in 1..Len(ret) : j < k => ret[j].source <= ret[k].source

\* a portrait, a landscape and a square page: four output pages
C16_Witness ==
    /\ pc = "splitDone"
    /\ Len(arg.sizes) = 3
    /\ SpreadPages = {2}
    /\ arg.sizes[3].width = arg.sizes[3].height
    /\ Len(ret) = 4

\* C17: the two output pages of a spread page of width w and height h are
\* the regions [0, w/2] and [w/2, w] of full height h from the bottom,
\* each w/2 wide; the right one comes first with right-to-left order, the
\* left one first with left-to-right order.
C17_SpreadHalves ==
    pc = "splitDone" =>
        \A i \in SpreadPages :
            \E j \in 1..(Len(ret) - 1) :
                LET w     == arg.sizes[i].width
                    h     == arg.sizes[i].height
                    left  == IF arg.rightToLeft THEN ret[j + 1] ELSE ret[j]
                    right == IF arg.rightToLeft THEN ret[j] ELSE ret[j + 1]
                IN  /\ OutputsOf(i) = {j, j + 1}
                    /\ left.x = 0 /\ 2 * (left.x + left.width) = w
                    /\ 2 * right.x = w /\ right.x + right.width = w
                    /\ 2 * left.width = w /\ 2 * right.width = w
                    /\ left.y = 0 /\ right.y = 0
                    /\ left.height = h /\ right.height = h

\* a landscape page split right-to-left: the right half comes first
C17_Witness ==
    /\ pc = "splitDone"
    /\ arg.rightToLeft
    /\ arg.sizes = <<[width |-> Px(3), height |-> Px(2)]>>
    /\ ret[1].x = 3 /\ ret[2].x = 0

\* C18 (as claimed): whenever a run has reached the save step, the path
\* handed to saveMarkdown is the output directory joined with the source
\* file name with its extension replaced by .md.
C18_OutputNameEndsInMd ==
    "save" \in OpsDone => outputPath = <<"out", "/", "doc", ".", "md">>

\* the codes of the error taxonomy a run can fail with
TypedCodes ==
    {FILE_NOT_FOUND, GCP_AUTH_FAILED, BUCKET_NOT_FOUND, UPLOAD_FAILED, DOWNLOAD_FAILED,
     LIST_FILES_FAILED, API_REQUEST_FAILED, OPERATION_TIMEOUT, INVALID_RESPONSE,
     JSON_PARSE_FAILED, TEXT_EXTRACTION_FAILED, FILE_WRITE_FAILED}

\* C19 (as claimed): the error a failed run ends with is an AppError that
\* carries a code of the taxonomy, whatever step failed.
C19_FailureIsTyped ==
    (pc = "done" /\ result = "failure") => err \in TypedCodes

\* the error kinds each step fails with
StepErrors(op) ==
    CASE op = "access" -> {UNTYPED}
      [] op = "gcs.initialize" -> {GCP_AUTH_FAILED}
      [] op = "vision.initialize" -> {GCP_AUTH_FAILED}
      [] op = "bucketExists" -> {GCP_AUTH_FAILED, BUCKET_NOT_FOUND}
      [] op = "uploadFile" -> {UPLOAD_FAILED}
      [] op = "asyncBatchAnnotate" -> {GCP_AUTH_FAILED, API_REQUEST_FAILED}
      [] op = "pollOperation" -> {GCP_AUTH_FAILED, API_REQUEST_FAILED, OPERATION_TIMEOUT}
      [] op = "mkdir" -> {UNTYPED}
      [] op = "listFiles" -> {LIST_FILES_FAILED}
      [] op = "downloadFile" -> {FILE_NOT_FOUND, DOWNLOAD_FAILED}
      [] op = "parse" -> {JSON_PARSE_FAILED}
      [] op = "extract" -> {TEXT_EXTRACTION_FAILED}
      [] op = "save" -> {FILE_WRITE_FAILED}
      [] op = "syncAnnotateImage" -> {GCP_AUTH_FAILED, API_REQUEST_FAILED}
      [] OTHER -> {}

\* the steps that failed, the removal of the temporary directory aside
FailedSteps == {i \in 1..Len(calls) : ~calls[i].ok /\ calls[i].op # "rm"}

Saved == \E i \in 1..Len(calls) : calls[i].op = "save" /\ calls[i].ok

\* C27: a failed removal of the temporary directory leaves the outcome of
\* the run as it was when the cleanup began: a run that reached completion
\* has sent its completion and the handler returns success, a run that
\* failed ends with the error it failed with.
C27_CleanupNeverEscalates ==
    [][(pc = "finally" /\ rmFailed') =>
            /\ pc' = "done"
            /\ err' = err
            /\ err = "none" =>
                    /\ Saved
                    /\ result' = "success"
                    /\ events' = events
                    /\ mainWindow => events[Len(events)] = Complete(pageCount)
            /\ err # "none" =>
                    /\ ~Saved
                    /\ result' = "failure"
                    /\ events' = Send(events, Error("ocr", err))]_vars

\* a completed run whose temporary directory could not be removed
C27_Witness ==
    /\ pc = "done" /\ rmFailed /\ dirExists
    /\ Saved /\ result = "success"
    /\ mainWindow /\ events[Len(events)].kind = "complete"

\* C21 (as claimed): the overall timeout of the poll step of a batch run
\* is the timeoutMs of the job: no tick of the poll step goes on to a status
\* query once more than timeoutMs has elapsed.
C21_JobTimeoutApplied ==
    (pc = "poll" /\ pollState # "idle") =>
        /\ pollTimeout = job.timeoutMs
        /\ pollState = "query" => pollElapsed <= job.timeoutMs

\* C22 (as claimed): the page texts of a batch run are those of extractText
\* under the options of the job: with ruby removal when removeRuby is on,
\* in normalizing mode when normalizeLineBreaks is on.
C22_OptionsHonoured ==
    Extracted => pages = extractText(responses.value, ObjectValue(job)).value

\* C23 (as claimed): a job with splitSpread on has the splitter invoked
\* before the path is chosen, a job with splitSpread off never has.
C23_SplitterInvoked ==
    /\ ~job.splitSpread => "splitSpreadPdf" \notin OpsDone
    /\ (job.splitSpread /\ pc # "idle" /\ calls[1].ok) =>
            /\ Len(calls) >= 2
            /\ calls[2].op = "splitSpreadPdf"

\* the listing of the output prefix succeeded and named no result file
NoResultFile ==
    /\ \E i \in 1..Len(calls) : calls[i].op = "listFiles" /\ calls[i].ok
    /\ jsonFiles = <<>>

\* the run failed with the no-results error, downloaded and wrote nothing
FailedWithNoResults ==
    /\ pc \in {"finally", "done"}
    /\ err = INVALID_RESPONSE
    /\ calls[Len(calls)].op \in {"listFiles", "rm"}
    /\ OpsDone \cap {"downloadFile", "parse", "extract", "save"} = {}
    /\ localJsonFiles = <<>> /\ outputPath = <<>>
    /\ pc = "done" =>
            /\ result = "failure"
            /\ mainWindow => events[Len(events)] = Error("ocr", INVALID_RESPONSE)

\* C28 (as claimed): when the listing holds no object name ending in .json
\* the run fails with the no-results error, makes no download, writes no
\* output file, and its temporary directory is removed.
C28_NoResultsDirRemoved ==
    NoResultFile =>
        /\ FailedWithNoResults
        /\ pc = "done" => ~dirExists

\* C28 (amended): the same, the temporary directory being removed unless
\* the removal itself fails: the removal has been attempted by the time the
\* handler returns.
C28_NoResults ==
    NoResultFile =>
        /\ FailedWithNoResults
        /\ pc = "done" => ("rm" \in OpsDone /\ (~rmFailed => ~dirExists))

\* a run that ended on a listing without result files, its directory gone
C28_Witness ==
    /\ pc = "done" /\ NoResultFile
    /\ calls[Len(calls)] = Call("rm", TRUE, FALSE)
    /\ ~dirExists /\ mainWindow

\* positions in the run of the calls of an operation
CallsOf(op) == {i \in 1..Len(calls) : calls[i].op = op}

\* C29: parsing starts only after every listed result file has been
\* downloaded: each download precedes the sort and the parse and succeeded;
\* when a download fails the run fails with a download error and no file is
\* sorted or parsed, nothing is composed and no output file is written.
C29_DownloadBarrier ==
    /\ OpsDone \cap {"sort", "parse", "extract", "compose", "save"} # {} =>
            /\ Len(localJsonFiles) = Len(jsonFiles)
            /\ Cardinality(CallsOf("downloadFile")) = Len(jsonFiles)
            /\ \A i \in CallsOf("downloadFile") :
                    /\ calls[i].ok
                    /\ \A j \in CallsOf("sort") \cup CallsOf("parse") : i < j
    /\ \A i \in CallsOf("downloadFile") :
            ~calls[i].ok =>
                /\ err \in {FILE_NOT_FOUND, DOWNLOAD_FAILED}
                /\ pc \in {"finally", "done"}
                /\ OpsDone \cap {"sort", "parse", "extract", "compose", "save"} = {}
                /\ sortedFiles = <<>> /\ responses = NoResponses
                /\ pages = <<>> /\ outputPath = <<>>
                /\ pc = "done" =>
                        /\ result = "failure"
                        /\ mainWindow => events[Len(events)] = Error("ocr", err)

\* a run that ended when the second of its two downloads failed, the first
\* file on disk and never parsed
C29_Witness ==
    /\ pc = "done" /\ result = "failure" /\ err = FILE_NOT_FOUND
    /\ Len(jsonFiles) = 2 /\ Len(localJsonFiles) = 1
    /\ DOMAIN disk = {localJsonFiles[1]}
    /\ Cardinality(CallsOf("downloadFile")) = 2
    /\ "parse" \notin OpsDone

---------------------------------------------------------------------------
(* Claims about pollOperation (SpecPoll) *)

\* every status query so far returned "not done, no error"
NeverDoneNoError ==
    \A i \in 1..Len(statuses) :
        ~statuses[i].done /\ ~statuses[i].error /\ ~statuses[i].threw

\* C3: a pollOperation call on an initialized client whose status queries
\* all return "not done, no error" never fails with API_REQUEST_FAILED and
\* never returns; when it fails it fails with OPERATION_TIMEOUT; it fails in
\* the first iteration whose elapsed time exceeds timeoutMs (no earlier
\* iteration exceeded it, none follows it), and that iteration makes no
\* status query.
C3_TimeoutKind ==
    (visionInit /\ NeverDoneNoError) =>
        /\ pollErr # API_REQUEST_FAILED
        /\ pollState # "returned"
        /\ (pollState = "failed" =>
                /\ pollErr = OPERATION_TIMEOUT
                /\ iterElapsed # <<>>
                /\ iterElapsed[Len(iterElapsed)] > pollTimeout)
        /\ \A i \in 1..Len(iterElapsed) :
                iterElapsed[i] > pollTimeout =>
                    /\ i = Len(iterElapsed)
                    /\ pollState = "failed"
                    /\ pollErr = OPERATION_TIMEOUT
                    /\ Len(statuses) = i - 1

\* a call that timed out after at least two queries that were not done
C3_Witness ==
    /\ pc = "pollDirect"
    /\ visionInit /\ NeverDoneNoError
    /\ pollState = "failed" /\ pollErr = OPERATION_TIMEOUT
    /\ Len(statuses) >= 2
    /\ pollTimeout >= 1

\* C9: a status that carries an error ends the call on that tick with
\* API_REQUEST_FAILED, also when it reports done; a call that returned did
\* so on a status with done and without error.
C9_ErrorBeforeDone ==
    /\ \A i \in 1..Len(statuses) :
            statuses[i].error =>
                /\ i = Len(statuses)
                /\ pollState = "failed"
                /\ pollErr = API_REQUEST_FAILED
    /\ (pollState = "returned" =>
            /\ statuses # <<>>
            /\ statuses[Len(statuses)].done
            /\ ~statuses[Len(statuses)].error)

\* a status with done and error ended the call with API_REQUEST_FAILED
C9_Witness ==
    /\ pc = "pollDirect"
    /\ Len(statuses) >= 2
    /\ statuses[Len(statuses)].error /\ statuses[Len(statuses)].done
    /\ pollState = "failed" /\ pollErr = API_REQUEST_FAILED

\* the status queries that returned a status
Returned == SelectSeq(statuses, LAMBDA st : ~st.threw)

\* C24: every status query that returns is followed by exactly one progress
\* callback, made with the elapsed time of its tick before the error or
\* done outcome of the tick is acted upon (so the tick that ends the call
\* has its callback too), and the elapsed values of a call never decrease.
C24_ProgressEveryTick ==
    /\ Len(progressCalls) = Len(Returned)
    /\ \A k \in 1..Len(progressCalls) :
            /\ progressCalls[k] = iterElapsed[k]
            /\ k > 1 => progressCalls[k - 1] <= progressCalls[k]

\* a call ended by an error status on its third tick, after three callbacks
\* with growing elapsed times
C24_Witness ==
    /\ pc = "pollDirect"
    /\ pollState = "failed" /\ pollErr = API_REQUEST_FAILED
    /\ Len(statuses) = 3 /\ statuses[3].error /\ ~statuses[3].threw
    /\ Len(progressCalls) = 3
    /\ progressCalls[1] < progressCalls[2] /\ progressCalls[2] < progressCalls[3]

PollEnded ==
    \/ pollState = "returned"
    \/ pollState = "failed" /\ pollErr \in {API_REQUEST_FAILED, OPERATION_TIMEOUT}

\* C26: a call on an initialized client, with a positive interval and status
\* queries that answer, ends: it returns or fails with API_REQUEST_FAILED or
\* OPERATION_TIMEOUT, also when the operation never reports done.
C26_PollTerminates == visionInit => <>PollEnded

\* a call on an operation that never reported done, ended by the timeout
\* after three status queries
C26_Witness ==
    /\ pc = "pollDirect"
    /\ visionInit /\ NeverDoneNoError
    /\ Len(statuses) = 3 /\ Len(sleeps) = 3
    /\ pollState = "failed" /\ pollErr = OPERATION_TIMEOUT

---------------------------------------------------------------------------
(* Claims about parseVisionOutput (SpecParse) *)

ContentsOf(files, d) == [i \in 1..Len(files) |-> d[files[i]]]

\* C5: parseVisionOutput returns the usable files in input order, skips the
\* others, and fails, with JSON_PARSE_FAILED, exactly when no file is usable.
C5_ParseSkipsUnusable ==
    pc = "parsed" =>
        LET expected == SelectSeq(ContentsOf(sortedFiles, disk), Usable)
        IN  /\ responses.ok <=> expected # <<>>
            /\ responses.ok => responses.value = expected /\ responses.err = "none"
            /\ ~responses.ok => responses.err = JSON_PARSE_FAILED /\ responses.value = <<>>

\* a call that skipped a file and returned two different files in order
C5_Witness ==
    /\ pc = "parsed"
    /\ responses.ok
    /\ Len(sortedFiles) = 3
    /\ Len(responses.value) = 2
    /\ responses.value[1] # responses.value[2]
    /\ \E i \in 1..3 : disk[sortedFiles[i]].responses = "other"

---------------------------------------------------------------------------
(* Claims about sortJsonFilesByPageRange (SpecSort) *)

\* the name holds "output-", digits, "-to-", digits, ".json" in a row
Conforms(p) ==
    \E i, j, k \in 1..Len(p) :
        /\ i + 1 < j /\ j + 1 < k
        /\ p[i] = "output-" /\ p[j] = "-to-" /\ p[k] = ".json"
        /\ \A m \in (i + 1)..(j - 1) : p[m] \in Digits
        /\ \A m \in (j + 1)..(k - 1) : p[m] \in Digits

Bijections(n) == {f \in [1..n -> 1..n] : \A i, j \in 1..n : f[i] = f[j] => i = j}

\* C10: the result is a permutation of the input, ascending by start page,
\* with equal start pages in input order; a name outside the convention has
\* start page 0 and precedes every conforming name with start page >= 1;
\* the start page of output-<s>-to-<e>.json is the decimal value of <s>.
C10_SortedStablePermutation ==
    pc = "sorted" =>
        LET n == Len(localJsonFiles) IN
        /\ Len(sortedFiles) = n
        /\ \E f \in Bijections(n) :
                /\ \A i \in 1..n : sortedFiles[i] = localJsonFiles[f[i]]
                /\ \A i, j \in 1..n :
                        i < j =>
                            \/ StartPage(sortedFiles[i]) < StartPage(sortedFiles[j])
                            \/ /\ StartPage(sortedFiles[i]) = StartPage(sortedFiles[j])
                               /\ f[i] < f[j]
        /\ \A i \in 1..n : ~Conforms(sortedFiles[i]) => StartPage(sortedFiles[i]) = 0
        /\ \A i, j \in 1..n :
                (/\ ~Conforms(sortedFiles[i])
                 /\ Conforms(sortedFiles[j])
                 /\ StartPage(sortedFiles[j]) >= 1) => i < j
        /\ StartPage(OutputName(<<"1", "0">>)) = 10
        /\ StartPage(OutputName(<<"0", "2">>)) = 2
        /\ StartPage(OutputName(<<"2">>) \o OutputName(<<"1">>)) = 2

\* a call that moved a non-conforming name to the front and ordered three
\* names of which two have the same start page
C10_Witness ==
    /\ pc = "sorted"
    /\ Len(localJsonFiles) = 3
    /\ ~Conforms(localJsonFiles[3])
    /\ sortedFiles[1] = localJsonFiles[3]
    /\ sortedFiles[2] = localJsonFiles[1] /\ sortedFiles[3] = localJsonFiles[2]
    /\ sortedFiles[2] # sortedFiles[3]
    /\ StartPage(sortedFiles[2]) = 2 /\ StartPage(sortedFiles[3]) = 2

---------------------------------------------------------------------------
(* Claims about the notifications of a run (Spec) *)

\* the progress notifications of the run, in order
ProgressSent == SelectSeq(events, LAMBDA e : e.kind = "progress")

\* C37: every progress notification of a run carries a percentage from 0
\* to 100; the percentages never decrease from one notification to the
\* next; those of the polling step are from 45 to 75 and those of the
\* download step from 80 to 90; and 100 is carried by the last progress
\* notification only, a 'save' one, of a run that does not fail.
C37_ProgressMonotone ==
    LET sent == ProgressSent
    IN  /\ \A i \in 1..Len(sent) :
            /\ Pct(0) <= sent[i].progress /\ sent[i].progress <= Pct(100)
            /\ sent[i].step = "polling" =>
                    (Pct(45) <= sent[i].progress /\ sent[i].progress <= Pct(75))
            /\ sent[i].step = "download" =>
                    (Pct(80) <= sent[i].progress /\ sent[i].progress <= Pct(90))
            /\ sent[i].progress = Pct(100) =>
                    /\ i = Len(sent)
                    /\ sent[i].step = "save"
                    /\ err = "none" /\ result # "failure"
        /\ \A i \in 1..(Len(sent) - 1) : sent[i].progress <= sent[i + 1].progress

\* a batch run that succeeded after a poll tick at the cap of 75 and a
\* download notification of 85
C37_Witness ==
    /\ pc = "done" /\ result = "success"
    /\ filePath.ext \in BatchExts
    /\ \E i \in 1..(Len(events) - 1) :
            /\ events[i] = Progress("polling", Pct(75))
            /\ events[i + 1] = Progress("polling", Pct(75))
    /\ \E i \in 1..Len(events) : events[i] = Progress("download", Pct(85))
    /\ ProgressSent[Len(ProgressSent)] = Progress("save", Pct(100))

\* OCRStep
OCRSteps == {"upload", "api-request", "polling", "download", "parse", "save"}

\* C35 (as claimed): the step of an error notification is one of the six
\* steps of a run, the one of the last progress notification sent before it.
C35_ErrorNamesStep ==
    \A i \in 1..Len(events) :
        events[i].kind = "error" =>
            /\ events[i].step \in OCRSteps
            /\ \A k \in 1..(i - 1) :
                (/\ events[k].kind = "progress"
                 /\ \A m \in (k + 1)..(i - 1) : events[m].kind # "progress")
                    => events[i].step = events[k].step

---------------------------------------------------------------------------
(* Claims about the shared storage and OCR clients (SpecOverlap) *)

\* the operations the invocations have invoked
ServiceCalls ==
    UNION {{runs[r].calls[i] : i \in 1..Len(runs[r].calls)} : r \in DOMAIN runs}

\* C33: a service that is initialized has its client handle, and an
\* operation invoked when no initialize of its service has succeeded yet,
\* or when the last one that ended has failed, fails with GCP_AUTH_FAILED
\* without a request to the remote service.
C33_ClientStates ==
    /\ \A svc \in {"gcs", "vision"} :
            services[svc].initialized =>
                (services[svc].handle # "null" /\ services[svc].lastInit = "ok")
    /\ \A c \in ServiceCalls :
            c.lastInit # "ok" => (c.err = GCP_AUTH_FAILED /\ ~c.remote)

\* an invocation with a valid key file whose storage call came after the
\* other invocation's initialize had failed
C33_Witness ==
    \E r \in DOMAIN runs :
        /\ runs[r].key = "good"
        /\ runs[r].pc = "done"
        /\ Len(runs[r].calls) = 2
        /\ runs[r].calls[1].err = "none" /\ runs[r].calls[1].remote
        /\ runs[r].calls[2].op = "uploadFile"
        /\ runs[r].calls[2].lastInit = "failed"
        /\ runs[r].calls[2].err = GCP_AUTH_FAILED /\ ~runs[r].calls[2].remote

\* what an invocation ends with when no other one runs: nothing with a
\* valid key file, GCP_AUTH_FAILED from its first initialize otherwise
AloneErr(key) == IF key = "good" THEN "none" ELSE GCP_AUTH_FAILED

\* C34 (as claimed): an invocation that overlaps with another ends as it
\* would alone, and none of its service calls fails when its own key file
\* is valid.
C34_RunsIndependent ==
    \A r \in DOMAIN runs :
        /\ runs[r].pc = "done" => runs[r].err = AloneErr(runs[r].key)
        /\ runs[r].key = "good" =>
                \A i \in 1..Len(runs[r].calls) : runs[r].calls[i].err = "none"

---------------------------------------------------------------------------
(* Claims about the names chosen by two batch runs (SpecPaths) *)

\* C36 (as claimed): two batch runs have different input object paths,
\* different output prefixes and different temporary directories; the
\* listing of a run holds only the result files written for that run; and
\* the files a run removes with its temporary directory are files that it
\* has downloaded itself.
C36_DistinctNames ==
    /\ \A r1, r2 \in DOMAIN runs :
            r1 # r2 =>
                /\ (runs[r1].gcsInputPath # <<>> /\ runs[r2].gcsInputPath # <<>>) =>
                        /\ runs[r1].gcsInputPath # runs[r2].gcsInputPath
                        /\ runs[r1].gcsOutputPrefix # runs[r2].gcsOutputPrefix
                /\ (runs[r1].tempDir # <<>> /\ runs[r2].tempDir # <<>>) =>
                        runs[r1].tempDir # runs[r2].tempDir
    /\ \A r \in DOMAIN runs :
            /\ \A o \in runs[r].outputFiles : o.owner = r
            /\ \A f \in runs[r].removed : f.by = r

---------------------------------------------------------------------------
(* Claims about the renderer (SpecRenderer) *)

\* C38 (as claimed): once the renderer has handled, in the order they were
\* sent, the error notification of a failed job and the reply to its start
\* request, its status is 'error' and its error is the message of that
\* notification.
C38_ErrorMessageKept ==
    (pc = "returned" /\ result = "failure" /\ ipc = <<>>) =>
        /\ renderer.status = "error"
        /\ renderer.error = events[Len(events)].code

=============================================================================
